---- MODULE Spec2Model ----
(***************************************************************************)
(* Balance engine and recurring-transaction scheduler of the check         *)
(* management backend.                                                     *)
(*                                                                         *)
(* Calendar days are day numbers: day 0 is 2023-01-01 (a Sunday).  A JS    *)
(* Date is modelled by its day number; the server runs in UTC, so that     *)
(* new Date('YYYY-MM-DD'), getDate()/setDate() and toISOString() all       *)
(* speak about the same calendar day.  Months are 0-based as in JS.        *)
(* Amounts are integers (minor units).                                     *)
(***************************************************************************)
EXTENDS Integers, Sequences, FiniteSets, TLC

VARIABLES
    accounts,   \* table bank_accounts: row i has id i
    checks,     \* table checks, in insertion order
    cash,       \* table cash, in insertion order
    templates,  \* table recurring_transactions: row i has id i
    today,      \* the server's current date (new Date())
    lastOp,     \* the most recent call and what it returned
    calc,       \* nextDueDate harness: the call's arguments and its result
    running     \* the job and trigger invocations in flight, between two awaits

\* SQL NULL / JS null for integer and date valued fields
Null == -1

---------------------------------------------------------------------------
(* Calendar: the JS Date arithmetic used by calculateNextDueDate           *)

Years == 2023..2030

IsLeap(y) == (y % 4 = 0 /\ y % 100 # 0) \/ y % 400 = 0

\* number of days of month m (0-based) of year y
DaysInMonth(y, m) ==
    IF m = 1 THEN (IF IsLeap(y) THEN 29 ELSE 28)
    ELSE IF m \in {3, 5, 8, 10} THEN 30 ELSE 31

\* leap years up to and including year y
LeapsThrough(y) == (y \div 4) - (y \div 100) + (y \div 400)

\* days from 2023-01-01 to January 1st of year y
DaysBeforeYear(y) == 365 * (y - 2023) + LeapsThrough(y - 1) - LeapsThrough(2022)

RECURSIVE DaysBeforeMonth(_, _)
DaysBeforeMonth(y, m) ==
    IF m = 0 THEN 0 ELSE DaysBeforeMonth(y, m - 1) + DaysInMonth(y, m - 1)

\* JS MakeDay: month overflow carries into the year, day overflow into the
\* following months (Feb 31 is Mar 2 or Mar 3)
MakeDay(y, m, d) ==
    LET yy == y + (m \div 12)
        mm == m % 12
    IN  DaysBeforeYear(yy) + DaysBeforeMonth(yy, mm) + d - 1

getFullYear(n) == CHOOSE y \in Years : DaysBeforeYear(y) <= n /\ n < DaysBeforeYear(y + 1)

getMonth(n) ==
    LET y == getFullYear(n)
    IN  CHOOSE m \in 0..11 :
            /\ MakeDay(y, m, 1) <= n
            /\ n < MakeDay(y, m, 1) + DaysInMonth(y, m)

getDate(n) == n - MakeDay(getFullYear(n), getMonth(n), 1) + 1

\* 0 = Sunday .. 6 = Saturday
getDay(n) == n % 7

setDate(n, d) == MakeDay(getFullYear(n), getMonth(n), d)
setMonth(n, m) == MakeDay(getFullYear(n), m, getDate(n))
setFullYear(n, y) == MakeDay(y, getMonth(n), getDate(n))

\* new Date(y, m + 1, 0).getDate()
lastDayOfMonth(n) == DaysInMonth(getFullYear(n), getMonth(n))

Min(a, b) == IF a <= b THEN a ELSE b

---------------------------------------------------------------------------
(* calculateNextDueDate                                                    *)

Frequencies == {"daily", "weekly", "monthly", "yearly"}

\* (dayOfWeek - nextDate.getDay() + 7) % 7 || 7, but never advancing
daysUntilNextSameDay(dayOfWeek, day) == (dayOfWeek - day + 7) % 7

\* (dayOfWeek - nextDate.getDay() + 7) % 7 || 7
daysUntilNext(dayOfWeek, day) ==
    LET k == (dayOfWeek - day + 7) % 7
    IN  IF k = 0 THEN 7 ELSE k

\* calculateNextDueDate, but the monthly branch sets the day of month
\* without moving to the next month first
calculateNextDueDateThisMonth(frequency, lastDate, dayOfMonth, dayOfWeek) ==
    CASE frequency = "daily" -> lastDate + 1
      [] frequency = "weekly" ->
            IF dayOfWeek # Null
            THEN lastDate + daysUntilNext(dayOfWeek, getDay(lastDate))
            ELSE lastDate + 7
      [] frequency = "monthly" ->
            IF dayOfMonth # Null
            THEN setDate(lastDate, Min(dayOfMonth, lastDayOfMonth(lastDate)))
            ELSE setMonth(lastDate, getMonth(lastDate) + 1)
      [] frequency = "yearly" ->
            LET moved == setFullYear(lastDate, getFullYear(lastDate) + 1)
            IN  IF dayOfMonth # Null
                THEN setDate(moved, Min(dayOfMonth, lastDayOfMonth(moved)))
                ELSE moved
      [] OTHER -> lastDate

calculateNextDueDate(frequency, lastDate, dayOfMonth, dayOfWeek) ==
    CASE frequency = "daily" -> lastDate + 1
      [] frequency = "weekly" ->
            IF dayOfWeek # Null
            THEN lastDate + daysUntilNext(dayOfWeek, getDay(lastDate))
            ELSE lastDate + 7
      [] frequency = "monthly" ->
            LET moved == setMonth(lastDate, getMonth(lastDate) + 1)
            IN  IF dayOfMonth # Null
                THEN setDate(moved, Min(dayOfMonth, lastDayOfMonth(moved)))
                ELSE moved
      [] frequency = "yearly" ->
            LET moved == setFullYear(lastDate, getFullYear(lastDate) + 1)
            IN  IF dayOfMonth # Null
                THEN setDate(moved, Min(dayOfMonth, lastDayOfMonth(moved)))
                ELSE moved
      [] OTHER -> lastDate

---------------------------------------------------------------------------
(* Tables and the ledger writes                                            *)

vars == <<accounts, checks, cash, templates, today, lastOp, calc, running>>

\* SQL NULL for text valued fields
NullStr == "NULL"

Users == {1, 2}

\* SELECT id FROM bank_accounts WHERE id = $1 AND user_id = $2 has a row
accountOwned(accts, bank_account_id, userId) ==
    /\ bank_account_id \in 1..Len(accts)
    /\ accts[bank_account_id].user_id = userId

\* x || 0 and parseFloat(x) || 0 on a number that may be unset
orZero(x) == IF x = Null THEN 0 ELSE x

\* INSERT INTO bank_accounts: low_balance_threshold || 0, opening_balance || 0
createAccount(accts, userId, accountData) ==
    Append(accts, [user_id |-> userId,
                   low_balance_threshold |-> orZero(accountData.low_balance_threshold),
                   opening_balance |-> orZero(accountData.opening_balance)])

\* UPDATE bank_accounts SET ..., low_balance_threshold = $4, opening_balance = $5
\* WHERE id = $6 AND user_id = $7, with $4 = low_balance_threshold || 0 and
\* $5 = opening_balance || 0; found = FALSE when no row matched
updateAccount(accts, accountId, userId, accountData) ==
    IF accountOwned(accts, accountId, userId)
    THEN [found |-> TRUE,
          accounts |-> [accts EXCEPT
              ![accountId].low_balance_threshold = orZero(accountData.low_balance_threshold),
              ![accountId].opening_balance = orZero(accountData.opening_balance)]]
    ELSE [found |-> FALSE, accounts |-> accts]

\* the checks table's column constraints
checkRowValid(checkData) ==
    /\ checkData.type \in {"incoming", "outgoing"}
    /\ checkData.amount > 0
    /\ checkData.date # Null
    /\ checkData.payee_payer_name # NullStr

\* createCheck: ownership check, then INSERT INTO checks; ok = FALSE models
\* the throw (no row is written)
createCheck(accts, chks, userId, checkData, storageFails) ==
    IF /\ accountOwned(accts, checkData.bank_account_id, userId)
       /\ checkRowValid(checkData)
       /\ ~storageFails
    THEN [ok |-> TRUE, checks |-> Append(chks, checkData)]
    ELSE [ok |-> FALSE, checks |-> chks]

\* the cash table's column constraints
cashRowValid(cashData) ==
    /\ cashData.type \in {"credit", "debit"}
    /\ cashData.amount > 0
    /\ cashData.date # Null
    /\ cashData.description # NullStr

\* createCashTransaction: INSERT INTO cash
createCashTransaction(csh, userId, cashData, storageFails) ==
    IF cashRowValid(cashData) /\ ~storageFails
    THEN [ok |-> TRUE,
          cash |-> Append(csh, [user_id |-> userId, type |-> cashData.type,
                                amount |-> cashData.amount, date |-> cashData.date,
                                description |-> cashData.description])]
    ELSE [ok |-> FALSE, cash |-> csh]

---------------------------------------------------------------------------
(* Balance engine: calculateBalanceForDate                                 *)

\* the cash sums, but with date < $2
RECURSIVE cashTotalBefore(_, _, _, _, _)
cashTotalBefore(csh, n, userId, type, date) ==
    IF n = 0 THEN 0
    ELSE cashTotalBefore(csh, n - 1, userId, type, date)
         + (IF /\ csh[n].user_id = userId
               /\ csh[n].date < date
               /\ csh[n].type = type
            THEN csh[n].amount ELSE 0)

\* SUM(CASE WHEN type = t THEN amount ELSE 0 END) over cash rows of the user
\* dated <= date, rows 1..n
RECURSIVE cashTotal(_, _, _, _, _)
cashTotal(csh, n, userId, type, date) ==
    IF n = 0 THEN 0
    ELSE cashTotal(csh, n - 1, userId, type, date)
         + (IF /\ csh[n].user_id = userId
               /\ csh[n].date <= date
               /\ csh[n].type = type
            THEN csh[n].amount ELSE 0)

\* SUM(amount) over checks of the account, but with date < $2
RECURSIVE checksTotalBefore(_, _, _, _, _)
checksTotalBefore(chks, n, accountId, type, date) ==
    IF n = 0 THEN 0
    ELSE checksTotalBefore(chks, n - 1, accountId, type, date)
         + (IF /\ chks[n].bank_account_id = accountId
               /\ chks[n].type = type
               /\ chks[n].date < date
            THEN chks[n].amount ELSE 0)

\* SUM(amount) over checks with the type dated <= date, of any account
RECURSIVE checksTotalAnyAccount(_, _, _, _, _)
checksTotalAnyAccount(chks, n, accountId, type, date) ==
    IF n = 0 THEN 0
    ELSE checksTotalAnyAccount(chks, n - 1, accountId, type, date)
         + (IF /\ chks[n].type = type
               /\ chks[n].date <= date
            THEN chks[n].amount ELSE 0)

\* SUM(amount) over checks of the account with the type dated <= date
RECURSIVE checksTotal(_, _, _, _, _)
checksTotal(chks, n, accountId, type, date) ==
    IF n = 0 THEN 0
    ELSE checksTotal(chks, n - 1, accountId, type, date)
         + (IF /\ chks[n].bank_account_id = accountId
               /\ chks[n].type = type
               /\ chks[n].date <= date
            THEN chks[n].amount ELSE 0)

\* one pass of the per-account loop, but with is_low_balance computed with <=
accountBalanceEntryInclusive(accts, chks, accountId, date) ==
    LET incomingTotal == checksTotal(chks, Len(chks), accountId, "incoming", date)
        outgoingTotal == checksTotal(chks, Len(chks), accountId, "outgoing", date)
        openingBalance == orZero(accts[accountId].opening_balance)
        balance == openingBalance + incomingTotal - outgoingTotal
    IN  [account_id |-> accountId,
         balance |-> balance,
         low_balance_threshold |-> orZero(accts[accountId].low_balance_threshold),
         is_low_balance |-> balance <= orZero(accts[accountId].low_balance_threshold)]

\* one pass of the per-account loop
accountBalanceEntry(accts, chks, accountId, date) ==
    LET incomingTotal == checksTotal(chks, Len(chks), accountId, "incoming", date)
        outgoingTotal == checksTotal(chks, Len(chks), accountId, "outgoing", date)
        openingBalance == orZero(accts[accountId].opening_balance)
        balance == openingBalance + incomingTotal - outgoingTotal
    IN  [account_id |-> accountId,
         balance |-> balance,
         low_balance_threshold |-> orZero(accts[accountId].low_balance_threshold),
         is_low_balance |-> balance < orZero(accts[accountId].low_balance_threshold)]

\* the loop over the account rows, in the order the query returned them:
\* accumulates accountBalances and overallBalance
RECURSIVE balanceLoop(_, _, _, _, _)
balanceLoop(accts, chks, rows, date, acc) ==
    IF rows = <<>> THEN acc
    ELSE LET entry == accountBalanceEntry(accts, chks, Head(rows), date)
         IN  balanceLoop(accts, chks, Tail(rows), date,
                         [overallBalance |-> acc.overallBalance + entry.balance,
                          accountBalances |-> Append(acc.accountBalances, entry)])

\* calculateBalanceForDate, but with overallBalance starting at 0
calculateBalanceWithoutCash(accts, chks, csh, rows, userId, date) ==
    LET cashCreditTotal == cashTotal(csh, Len(csh), userId, "credit", date)
        cashDebitTotal == cashTotal(csh, Len(csh), userId, "debit", date)
        cashNetBalance == cashCreditTotal - cashDebitTotal
        done == balanceLoop(accts, chks, rows, date,
                            [overallBalance |-> 0, accountBalances |-> <<>>])
    IN  [date |-> date,
         overall_balance |-> done.overallBalance,
         account_balances |-> done.accountBalances,
         cash_balance |-> cashNetBalance]

\* rows: the ids of the user's accounts in the order the SELECT returned them
calculateBalanceForDate(accts, chks, csh, rows, userId, date) ==
    LET cashCreditTotal == cashTotal(csh, Len(csh), userId, "credit", date)
        cashDebitTotal == cashTotal(csh, Len(csh), userId, "debit", date)
        cashNetBalance == cashCreditTotal - cashDebitTotal
        done == balanceLoop(accts, chks, rows, date,
                            [overallBalance |-> cashNetBalance, accountBalances |-> <<>>])
    IN  [date |-> date,
         overall_balance |-> done.overallBalance,
         account_balances |-> done.accountBalances,
         cash_balance |-> cashNetBalance]

\* SELECT ... FROM bank_accounts WHERE user_id = $1 carries no ORDER BY: any
\* order of the user's accounts
accountRowOrders(accts, userId) ==
    LET ids == {i \in 1..Len(accts) : accts[i].user_id = userId}
        n == Cardinality(ids)
    IN  {s \in [1..n -> ids] : \A i, j \in 1..n : i # j => s[i] # s[j]}

---------------------------------------------------------------------------
(* Recurring-transaction templates: the model layer                        *)

\* x || null on a number
orNull(x) == IF x = 0 THEN Null ELSE x

\* WHERE rt.id = $1 has a row, whoever owns it
templateFoundAnyOwner(tpls, recurringId, userId) ==
    recurringId \in 1..Len(tpls)

\* WHERE rt.id = $1 AND rt.user_id = $2 has a row
templateFound(tpls, recurringId, userId) ==
    /\ recurringId \in 1..Len(tpls)
    /\ tpls[recurringId].user_id = userId

\* model createRecurringTransaction, after its ownership check passed: the
\* next due date is computed from the data as passed, the row stores
\* day_of_month || null and day_of_week || null
insertRecurringTransaction(tpls, userId, recurringData) ==
    LET nextDueDate == calculateNextDueDate(recurringData.frequency,
                                            recurringData.start_date,
                                            recurringData.day_of_month,
                                            recurringData.day_of_week)
    IN  Append(tpls,
               [id |-> Len(tpls) + 1,
                user_id |-> userId,
                transaction_type |-> recurringData.transaction_type,
                bank_account_id |-> recurringData.bank_account_id,
                check_type |-> recurringData.check_type,
                cash_type |-> recurringData.cash_type,
                amount |-> recurringData.amount,
                payee_payer_name |-> recurringData.payee_payer_name,
                description |-> recurringData.description,
                frequency |-> recurringData.frequency,
                start_date |-> recurringData.start_date,
                end_date |-> recurringData.end_date,
                day_of_month |-> orNull(recurringData.day_of_month),
                day_of_week |-> orNull(recurringData.day_of_week),
                is_active |-> TRUE,
                last_created_date |-> Null,
                next_due_date |-> nextDueDate])

\* recurringData.f !== undefined
Has(recurringData, f) == f \in DOMAIN recurringData

\* COALESCE($n, column) for a number or date parameter
coalesce(recurringData, f, old) ==
    IF Has(recurringData, f) /\ recurringData[f] # Null THEN recurringData[f] ELSE old

\* COALESCE($n, column) for a text parameter
coalesceStr(recurringData, f, old) ==
    IF Has(recurringData, f) /\ recurringData[f] # NullStr THEN recurringData[f] ELSE old

\* the next_due_date an update writes: the current one, or a recalculation
\* from the start date when a recurrence field is part of the update
updatedNextDueDate(current, recurringData) ==
    IF \/ Has(recurringData, "frequency")
       \/ Has(recurringData, "start_date")
       \/ Has(recurringData, "day_of_month")
       \/ Has(recurringData, "day_of_week")
    THEN calculateNextDueDate(
            IF Has(recurringData, "frequency") THEN recurringData.frequency
                                              ELSE current.frequency,
            IF Has(recurringData, "start_date") THEN recurringData.start_date
                                               ELSE current.start_date,
            IF Has(recurringData, "day_of_month") THEN recurringData.day_of_month
                                                 ELSE current.day_of_month,
            IF Has(recurringData, "day_of_week") THEN recurringData.day_of_week
                                                ELSE current.day_of_week)
    ELSE current.next_due_date

\* the UPDATE recurring_transactions statement of updateRecurringTransaction
updateRow(current, recurringData) ==
    [current EXCEPT
        !.transaction_type = coalesceStr(recurringData, "transaction_type", @),
        !.bank_account_id = coalesce(recurringData, "bank_account_id", @),
        !.check_type = coalesceStr(recurringData, "check_type", @),
        !.cash_type = coalesceStr(recurringData, "cash_type", @),
        !.amount = coalesce(recurringData, "amount", @),
        !.payee_payer_name = coalesceStr(recurringData, "payee_payer_name", @),
        !.description = coalesceStr(recurringData, "description", @),
        !.frequency = coalesceStr(recurringData, "frequency", @),
        !.start_date = coalesce(recurringData, "start_date", @),
        !.end_date = coalesce(recurringData, "end_date", @),
        !.day_of_month = coalesce(recurringData, "day_of_month", @),
        !.day_of_week = coalesce(recurringData, "day_of_week", @),
        !.is_active = IF Has(recurringData, "is_active") THEN recurringData.is_active ELSE @,
        !.next_due_date = updatedNextDueDate(current, recurringData)]

\* the WHERE clause of getDueRecurringTransactions, without its end_date test
isDueIgnoringEnd(rt, upToDate) ==
    /\ rt.is_active = TRUE
    /\ rt.next_due_date <= upToDate
    /\ rt.start_date <= rt.next_due_date

\* the WHERE clause of getDueRecurringTransactions, without its date bound
isDueIgnoringDate(rt, upToDate) ==
    /\ rt.is_active = TRUE
    /\ (rt.end_date = Null \/ rt.end_date >= rt.next_due_date)
    /\ rt.start_date <= rt.next_due_date

\* the WHERE clause of getDueRecurringTransactions
isDue(rt, upToDate) ==
    /\ rt.is_active = TRUE
    /\ rt.next_due_date <= upToDate
    /\ (rt.end_date = Null \/ rt.end_date >= rt.next_due_date)
    /\ rt.start_date <= rt.next_due_date

\* getDueRecurringTransactions, but without its ORDER BY: the due rows in
\* any order
getDueUnordered(tpls, upToDate) ==
    LET due == {i \in 1..Len(tpls) : isDue(tpls[i], upToDate)}
        n == Cardinality(due)
    IN  {s \in [1..n -> {tpls[i] : i \in due}] :
            \A i, j \in 1..n : i # j => s[i].id # s[j].id}

\* getDueRecurringTransactions: the due rows, ORDER BY next_due_date ASC; rows
\* with equal next_due_date come in any order, so this is the set of the
\* possible results
getDueRecurringTransactions(tpls, upToDate) ==
    LET due == {i \in 1..Len(tpls) : isDue(tpls[i], upToDate)}
        n == Cardinality(due)
    IN  {s \in [1..n -> {tpls[i] : i \in due}] :
            /\ \A i, j \in 1..n : i # j => s[i].id # s[j].id
            /\ \A i, j \in 1..n : i < j => s[i].next_due_date <= s[j].next_due_date}

\* the job's listing, but a failing query is taken for an empty result
listDueTransactionsSwallowing(tpls, upToDate, listingFails) ==
    IF listingFails THEN [ok |-> TRUE, rows |-> {<<>>}]
    ELSE [ok |-> TRUE, rows |-> getDueRecurringTransactions(tpls, upToDate)]

\* const dueTransactions = await getDueRecurringTransactions(processDate):
\* the possible results, or ok = FALSE when the query throws
listDueTransactions(tpls, upToDate, listingFails) ==
    IF listingFails THEN [ok |-> FALSE, rows |-> {}]
    ELSE [ok |-> TRUE, rows |-> getDueRecurringTransactions(tpls, upToDate)]

\* markRecurringTransactionCreated, but advancing from the old due date
markFromDueDate(tpls, recurringId, createdDate) ==
    LET current == tpls[recurringId]
    IN  [tpls EXCEPT ![recurringId] =
            [current EXCEPT
                !.last_created_date = createdDate,
                !.next_due_date = calculateNextDueDate(current.frequency,
                                                       current.next_due_date,
                                                       current.day_of_month,
                                                       current.day_of_week)]]

\* markRecurringTransactionCreated, but switching the template off once its
\* next due date lies past its end date
markDeactivatingPastEnd(tpls, recurringId, createdDate) ==
    LET current == tpls[recurringId]
        nextDueDate == calculateNextDueDate(current.frequency, createdDate,
                                            current.day_of_month, current.day_of_week)
    IN  [tpls EXCEPT ![recurringId] =
            [current EXCEPT
                !.last_created_date = createdDate,
                !.next_due_date = nextDueDate,
                !.is_active = IF current.end_date # Null /\ nextDueDate > current.end_date
                              THEN FALSE ELSE @]]

\* markRecurringTransactionCreated: reads frequency, day_of_month and
\* day_of_week of the stored row, writes last_created_date and next_due_date
markRecurringTransactionCreated(tpls, recurringId, createdDate) ==
    LET current == tpls[recurringId]
    IN  [tpls EXCEPT ![recurringId] =
            [current EXCEPT
                !.last_created_date = createdDate,
                !.next_due_date = calculateNextDueDate(current.frequency, createdDate,
                                                       current.day_of_month,
                                                       current.day_of_week)]]

\* checkData, but dated with the template's start date
checkDataOfStartDate(rt, dateStr) ==
    [bank_account_id |-> rt.bank_account_id, type |-> rt.check_type,
     amount |-> rt.amount, date |-> rt.start_date,
     payee_payer_name |-> rt.payee_payer_name]

\* the ledger entry a template row asks for, dated dateStr
checkDataOf(rt, dateStr) ==
    [bank_account_id |-> rt.bank_account_id, type |-> rt.check_type,
     amount |-> rt.amount, date |-> dateStr, payee_payer_name |-> rt.payee_payer_name]

cashDataOf(rt, dateStr) ==
    [type |-> rt.cash_type, amount |-> rt.amount, date |-> dateStr,
     description |-> rt.description]

\* fire, but a failing mark call has already written last_created_date
fireHalfMarked(accts, db, rt, userId, dateStr, fault) ==
    LET ck == createCheck(accts, db.checks, userId, checkDataOf(rt, dateStr), fault = "create")
        cs == createCashTransaction(db.cash, userId, cashDataOf(rt, dateStr), fault = "create")
        isCheck == rt.transaction_type = "check"
        created == IF isCheck THEN ck.ok ELSE cs.ok
        written == [db EXCEPT !.checks = IF isCheck THEN ck.checks ELSE @,
                              !.cash = IF isCheck THEN @ ELSE cs.cash]
        createdTransaction ==
            [recurring_id |-> rt.id,
             table |-> rt.transaction_type,
             row |-> IF isCheck THEN Len(written.checks) ELSE Len(written.cash)]
    IN  IF ~created THEN [ok |-> FALSE, db |-> db, created |-> <<>>]
        ELSE IF fault = "mark"
        THEN [ok |-> FALSE,
              db |-> [written EXCEPT !.templates[rt.id].last_created_date = dateStr],
              created |-> <<createdTransaction>>]
        ELSE [ok |-> TRUE,
              db |-> [written EXCEPT
                         !.templates = markRecurringTransactionCreated(@, rt.id, dateStr)],
              created |-> <<createdTransaction>>]

\* Materialization followed by the schedule advance, as the job's loop body
\* and the trigger endpoint both do it.  db = [checks, cash, templates];
\* rt is the row as the caller read it; fault names the storage call that
\* fails ("none", "create" or "mark").  ok = FALSE models the throw.
\* created is createdTransaction: the table and the row of the new entry.
fire(accts, db, rt, userId, dateStr, fault) ==
    LET ck == createCheck(accts, db.checks, userId, checkDataOf(rt, dateStr), fault = "create")
        cs == createCashTransaction(db.cash, userId, cashDataOf(rt, dateStr), fault = "create")
        isCheck == rt.transaction_type = "check"
        created == IF isCheck THEN ck.ok ELSE cs.ok
        written == [db EXCEPT !.checks = IF isCheck THEN ck.checks ELSE @,
                              !.cash = IF isCheck THEN @ ELSE cs.cash]
        createdTransaction ==
            [recurring_id |-> rt.id,
             table |-> rt.transaction_type,
             row |-> IF isCheck THEN Len(written.checks) ELSE Len(written.cash)]
    IN  IF ~created THEN [ok |-> FALSE, db |-> db, created |-> <<>>]
        ELSE IF fault = "mark"
        THEN [ok |-> FALSE, db |-> written, created |-> <<createdTransaction>>]
        ELSE [ok |-> TRUE,
              db |-> [written EXCEPT
                         !.templates = markRecurringTransactionCreated(@, rt.id, dateStr)],
              created |-> <<createdTransaction>>]

---------------------------------------------------------------------------
(* The batch job: processDueRecurringTransactions                          *)

\* run = [db, results, log]: the tables, the summary being built, and the
\* entries created so far (the job's "Created ... from recurring template"
\* log lines)
startRun(db) ==
    [db |-> db,
     results |-> [processed |-> 0, failed |-> 0, errors |-> <<>>],
     log |-> <<>>]

\* one pass of the loop body, but the entry is created for the template's
\* due date and the schedule advanced from there
processOneOnDueDate(accts, run, rt, dateStr, fault) ==
    LET f == fire(accts, run.db, rt, rt.user_id, rt.next_due_date, fault)
    IN  [db |-> f.db,
         results |-> IF f.ok
                     THEN [run.results EXCEPT !.processed = @ + 1]
                     ELSE [run.results EXCEPT
                              !.failed = @ + 1,
                              !.errors = Append(@, [recurring_transaction_id |-> rt.id])],
         log |-> run.log \o f.created]

\* one pass of the loop body: try { create; mark; processed++ }
\* catch { failed++; errors.push(...) }
processOne(accts, run, rt, dateStr, fault) ==
    LET f == fire(accts, run.db, rt, rt.user_id, dateStr, fault)
    IN  [db |-> f.db,
         results |-> IF f.ok
                     THEN [run.results EXCEPT !.processed = @ + 1]
                     ELSE [run.results EXCEPT
                              !.failed = @ + 1,
                              !.errors = Append(@, [recurring_transaction_id |-> rt.id])],
         log |-> run.log \o f.created]

\* the loop of processDueRecurringTransactions, but leaving at the first
\* failure
RECURSIVE processLoopAborting(_, _, _, _, _)
processLoopAborting(accts, run, dueTransactions, dateStr, faultAt) ==
    IF dueTransactions = <<>> THEN run
    ELSE LET rt == Head(dueTransactions)
             next == processOne(accts, run, rt, dateStr, faultAt[rt.id])
         IN  IF next.results.failed > run.results.failed
             THEN next
             ELSE processLoopAborting(accts, next, Tail(dueTransactions), dateStr, faultAt)

\* the loop of processDueRecurringTransactions over the rows listed as due;
\* faultAt[id] names the storage call that fails while row id is processed
RECURSIVE processLoop(_, _, _, _, _)
processLoop(accts, run, dueTransactions, dateStr, faultAt) ==
    IF dueTransactions = <<>> THEN run
    ELSE LET rt == Head(dueTransactions)
         IN  processLoop(accts, processOne(accts, run, rt, dateStr, faultAt[rt.id]),
                         Tail(dueTransactions), dateStr, faultAt)

---------------------------------------------------------------------------
(* Bounds and inputs of the scheduler specification                        *)

MaxTemplates == 1
MaxLedger == 3

\* 2024-03-04 (a Monday), 2024-03-11, 2024-04-01
ClockDates == {428, 435, 456}

\* dates a caller passes to the trigger endpoint: 2024-02-25, 2024-03-12
TriggerDates == {420, 436}

CashKind ==
    [transaction_type |-> "cash", bank_account_id |-> Null, check_type |-> NullStr,
     cash_type |-> "credit", amount |-> 10, payee_payer_name |-> NullStr,
     description |-> "salary"]

CheckKind(a) ==
    [transaction_type |-> "check", bank_account_id |-> a, check_type |-> "outgoing",
     cash_type |-> NullStr, amount |-> 25, payee_payer_name |-> "rent",
     description |-> NullStr]

\* a cash template without description: rejected by the controller
BadKind == [CashKind EXCEPT !.description = NullStr]

Schedules ==
    { [frequency |-> "daily", start_date |-> 428, end_date |-> Null,
       day_of_month |-> Null, day_of_week |-> Null],
      \* ends before its first due date
      [frequency |-> "daily", start_date |-> 428, end_date |-> 428,
       day_of_month |-> Null, day_of_week |-> Null],
      \* every Sunday
      [frequency |-> "weekly", start_date |-> 428, end_date |-> Null,
       day_of_month |-> Null, day_of_week |-> 0],
      \* the 31st of every month, from 2024-01-31
      [frequency |-> "monthly", start_date |-> 395, end_date |-> Null,
       day_of_month |-> 31, day_of_week |-> Null] }

\* the create requests: user 1 asks for check templates (account 2 is not
\* theirs), user 2 for cash templates
CreateRequests ==
    {[userId |-> 1, body |-> CheckKind(a) @@ sch] : a \in 1..2, sch \in Schedules}
    \cup {[userId |-> 2, body |-> k @@ sch] : k \in {CashKind, BadKind}, sch \in Schedules}

\* request bodies of the update endpoint
UpdateBodies ==
    { [is_active |-> FALSE],
      [frequency |-> "daily"],
      [transaction_type |-> "check"] }

Faults == {"none", "create", "mark"}

\* which storage call fails for which template during one batch run: at
\* most one failure per run
FaultMaps ==
    {f \in [1..Len(templates) -> Faults] :
        Cardinality({i \in 1..Len(templates) : f[i] # "none"}) <= 1}

\* the failures of one batch run: the listing fails, or at most one storage
\* call of the loop does
BatchFaults ==
    {[faultAt |-> f, listingFails |-> FALSE] : f \in FaultMaps}
    \cup {[faultAt |-> [i \in 1..Len(templates) |-> "none"], listingFails |-> TRUE]}

ledgerSize == Len(checks) + Len(cash)

---------------------------------------------------------------------------
(* Invocations in flight                                                   *)

MaxInvocations == 2

Invocations == 1..MaxInvocations

\* An invocation of the job or of the trigger endpoint between two awaited
\* storage calls: the rows it read (due), the row it is at (pos), the call it
\* makes next (phase: "create", "mark", or "done" before it returns), its
\* date string, the trigger's caller, the summary and the entries created
Idle ==
    [phase |-> "idle", kind |-> "none", userId |-> 0, dateStr |-> 0, due |-> <<>>,
     pos |-> 0, results |-> [processed |-> 0, failed |-> 0, errors |-> <<>>],
     log |-> <<>>]

NoneRunning == [p \in Invocations |-> Idle]

---------------------------------------------------------------------------
(* Handlers                                                                *)

\* the field checks of the controller's createRecurringTransaction
createBodyValid(body) ==
    /\ body.transaction_type \in {"check", "cash"}
    /\ body.transaction_type = "check" =>
          /\ body.bank_account_id # Null
          /\ body.check_type \in {"incoming", "outgoing"}
          /\ body.payee_payer_name # NullStr
    /\ body.transaction_type = "cash" =>
          /\ body.cash_type \in {"credit", "debit"}
          /\ body.description # NullStr
    /\ body.frequency \in Frequencies
    /\ body.amount > 0
    /\ body.start_date # Null
    /\ body.day_of_month = Null \/ body.day_of_month \in 1..31
    /\ body.day_of_week = Null \/ body.day_of_week \in 0..6

\* POST /recurring-transactions
CreateRecurringTransaction(userId, body) ==
    /\ Len(templates) < MaxTemplates
    /\ IF ~createBodyValid(body)
       THEN /\ lastOp' = [op |-> "create", status |-> 400]
            /\ UNCHANGED templates
       ELSE IF body.bank_account_id # Null
               /\ ~accountOwned(accounts, body.bank_account_id, userId)
       THEN /\ lastOp' = [op |-> "create", status |-> 404]
            /\ UNCHANGED templates
       ELSE /\ templates' = insertRecurringTransaction(templates, userId, body)
            /\ lastOp' = [op |-> "create", status |-> 201]
    /\ UNCHANGED <<accounts, checks, cash, today, calc, running>>

\* PUT /recurring-transactions/:id
UpdateRecurringTransaction(id, userId, recurringData) ==
    /\ IF ~templateFound(templates, id, userId)
       THEN /\ lastOp' = [op |-> "update", status |-> 404]
            /\ UNCHANGED templates
       ELSE IF /\ Has(recurringData, "bank_account_id")
               /\ recurringData.bank_account_id # Null
               /\ recurringData.bank_account_id # templates[id].bank_account_id
               /\ ~accountOwned(accounts, recurringData.bank_account_id, userId)
       THEN /\ lastOp' = [op |-> "update", status |-> 404]
            /\ UNCHANGED templates
       ELSE /\ templates' = [templates EXCEPT ![id] = updateRow(@, recurringData)]
            /\ lastOp' = [op |-> "update", status |-> 200]
    /\ UNCHANGED <<accounts, checks, cash, today, calc, running>>

\* POST /recurring-transactions/:id/trigger with a date in the body
TriggerRecurringTransaction(id, userId, date, fault) ==
    /\ ledgerSize < MaxLedger
    /\ IF ~templateFound(templates, id, userId)
       THEN /\ lastOp' = [op |-> "trigger", status |-> 404, id |-> id, userId |-> userId,
                         date |-> date]
            /\ UNCHANGED <<checks, cash, templates>>
       ELSE IF ~templates[id].is_active
       THEN /\ lastOp' = [op |-> "trigger", status |-> 400, id |-> id, userId |-> userId,
                         date |-> date]
            /\ UNCHANGED <<checks, cash, templates>>
       ELSE \E f \in {fire(accounts,
                            [checks |-> checks, cash |-> cash, templates |-> templates],
                            templates[id], userId, date, fault)} :
                /\ checks' = f.db.checks
                /\ cash' = f.db.cash
                /\ templates' = f.db.templates
                /\ lastOp' = [op |-> "trigger", status |-> IF f.ok THEN 200 ELSE 500,
                              id |-> id, userId |-> userId, date |-> date,
                              log |-> f.created]
    /\ UNCHANGED <<accounts, today, calc, running>>

\* the daily job: processDueRecurringTransactions(new Date()).  listingFails:
\* the query of getDueRecurringTransactions fails; the outer catch rethrows
ProcessDueRecurringTransactions(faultAt, listingFails) ==
    \E listed \in {listDueTransactions(templates, today, listingFails)} :
        IF ~listed.ok
        THEN /\ lastOp' = [op |-> "batchThrown", date |-> today,
                           listingFailed |-> listingFails]
             /\ UNCHANGED <<accounts, checks, cash, templates, today, calc, running>>
        ELSE \E dueTransactions \in listed.rows :
                /\ ledgerSize + Len(dueTransactions) <= MaxLedger
                /\ \E run \in {processLoop(accounts,
                                             startRun([checks |-> checks, cash |-> cash,
                                                       templates |-> templates]),
                                             dueTransactions, today, faultAt)} :
                      /\ checks' = run.db.checks
                      /\ cash' = run.db.cash
                      /\ templates' = run.db.templates
                      /\ lastOp' = [op |-> "batch", date |-> today,
                                    listingFailed |-> listingFails,
                                    due |-> [i \in 1..Len(dueTransactions) |->
                                                dueTransactions[i].id],
                                    results |-> run.results, log |-> run.log]
                /\ UNCHANGED <<accounts, today, calc, running>>

\* time passes
Tick(date) ==
    /\ date > today
    /\ today' = date
    /\ lastOp' = [op |-> "tick"]
    /\ UNCHANGED <<accounts, checks, cash, templates, calc, running>>

\* one account per user: account 1 of user 1, account 2 of user 2
SeedAccounts ==
    <<[user_id |-> 1, low_balance_threshold |-> 0, opening_balance |-> 0],
      [user_id |-> 2, low_balance_threshold |-> 0, opening_balance |-> 0]>>

---------------------------------------------------------------------------
(* Harness for the pure function: every argument combination in bounds     *)

\* anchors from 2023-01-01 to 2025-03-11
LastAnchor == 800

AnchorDates == 0..LastAnchor

CalcInputs ==
    [frequency : {"daily"}, lastDate : AnchorDates, dayOfMonth : {Null}, dayOfWeek : {Null}]
    \cup [frequency : {"weekly"}, lastDate : AnchorDates, dayOfMonth : {Null},
          dayOfWeek : {Null} \cup 0..6]
    \cup [frequency : {"monthly", "yearly"}, lastDate : AnchorDates,
          dayOfMonth : {Null} \cup 1..31, dayOfWeek : {Null}]

NoCalc == [args |-> [frequency |-> "daily", lastDate |-> 0, dayOfMonth |-> Null,
                     dayOfWeek |-> Null], result |-> Null]

CalcInit ==
    /\ calc \in [args : CalcInputs, result : {Null}]
    /\ accounts = <<>>
    /\ checks = <<>>
    /\ cash = <<>>
    /\ templates = <<>>
    /\ today = 0
    /\ lastOp = [op |-> "init"]
    /\ running = NoneRunning

Calc ==
    /\ calc.result = Null
    /\ calc' = [calc EXCEPT !.result =
                   calculateNextDueDate(calc.args.frequency, calc.args.lastDate,
                                        calc.args.dayOfMonth, calc.args.dayOfWeek)]
    /\ UNCHANGED <<accounts, checks, cash, templates, today, lastOp, running>>

NextDates == Calc

SpecDates == CalcInit /\ [][NextDates]_vars

---------------------------------------------------------------------------
(* The scheduler specification                                             *)

Init ==
    /\ accounts = SeedAccounts
    /\ checks = <<>>
    /\ cash = <<>>
    /\ templates = <<>>
    /\ today = 428
    /\ lastOp = [op |-> "init"]
    /\ calc = NoCalc
    /\ running = NoneRunning

Next ==
    \/ \E req \in CreateRequests : CreateRecurringTransaction(req.userId, req.body)
    \/ \E id \in 1..MaxTemplates, u \in Users, body \in UpdateBodies :
          UpdateRecurringTransaction(id, u, body)
    \/ \E id \in 1..MaxTemplates, u \in Users, date \in TriggerDates, fault \in Faults :
          TriggerRecurringTransaction(id, u, date, fault)
    \/ \E f \in BatchFaults : ProcessDueRecurringTransactions(f.faultAt, f.listingFails)
    \/ \E date \in ClockDates : Tick(date)

Spec == Init /\ [][Next]_vars

---------------------------------------------------------------------------
(* The batch specification: three templates exist, the job runs on them    *)

BatchSchedules == Schedules

\* the three create requests that led to the initial table: a cash template
\* of user 2, a check template of user 1, a cash template of user 2
BatchTables ==
    { insertRecurringTransaction(
          insertRecurringTransaction(
              insertRecurringTransaction(<<>>, 2, CashKind @@ s1),
              1, CheckKind(1) @@ s2),
          2, CashKind @@ s3) : s1 \in BatchSchedules, s2 \in BatchSchedules,
                              s3 \in BatchSchedules }

InitBatch ==
    /\ accounts = SeedAccounts
    /\ checks = <<>>
    /\ cash = <<>>
    /\ templates \in BatchTables
    /\ today = 428
    /\ lastOp = [op |-> "init"]
    /\ calc = NoCalc
    /\ running = NoneRunning

\* the update turns a cash template into a check template without account;
\* the trigger fires a template for a date before its start date
NextBatch ==
    \/ \E id \in {1, 3} : UpdateRecurringTransaction(id, 2, [transaction_type |-> "check"])
    \/ TriggerRecurringTransaction(3, 2, 420, "none")
    \/ \E f \in BatchFaults : ProcessDueRecurringTransactions(f.faultAt, f.listingFails)
    \/ \E date \in ClockDates : Tick(date)

SpecBatch == InitBatch /\ [][NextBatch]_vars

---------------------------------------------------------------------------
(* The balance specification: accounts, ledger writes, balance queries     *)

MaxAccounts == 2
MaxRows == 2

\* dates of ledger rows and of balance queries
LedgerDates == {10, 11, 12}
QueryDates == {10, 11}

\* an overdrawn account with a threshold, an account without threshold
AccountInputs ==
    { [opening_balance |-> 0 - 50, low_balance_threshold |-> 20],
      [opening_balance |-> 100, low_balance_threshold |-> Null] }

CheckInputs ==
    [bank_account_id : 1..MaxAccounts, type : {"incoming", "outgoing"},
     amount : {30, 70}, date : LedgerDates, payee_payer_name : {"rent"}]

CashInputs ==
    [type : {"credit", "debit"}, amount : {45}, date : LedgerDates,
     description : {"salary"}]

\* POST /accounts
CreateAccount(userId, accountData) ==
    /\ Len(accounts) < MaxAccounts
    /\ accounts' = createAccount(accounts, userId, accountData)
    /\ lastOp' = [op |-> "account", status |-> 201, body |-> accountData]
    /\ UNCHANGED <<checks, cash, templates, today, calc, running>>

\* POST /checks
CreateCheck(userId, checkData) ==
    /\ ledgerSize < MaxRows
    /\ LET r == createCheck(accounts, checks, userId, checkData, FALSE)
       IN  /\ checks' = r.checks
           /\ lastOp' = [op |-> "check", status |-> IF r.ok THEN 201 ELSE 404]
    /\ UNCHANGED <<accounts, cash, templates, today, calc, running>>

\* POST /cash
CreateCashTransaction(userId, cashData) ==
    /\ ledgerSize < MaxRows
    /\ LET r == createCashTransaction(cash, userId, cashData, FALSE)
       IN  /\ cash' = r.cash
           /\ lastOp' = [op |-> "cash", status |-> 201]
    /\ UNCHANGED <<accounts, checks, templates, today, calc, running>>

\* GET /dashboard/balance?date=, but writing each computed balance back as
\* the account's opening balance
GetBalanceStoring(userId, date) ==
    /\ \E rows \in accountRowOrders(accounts, userId) :
          \E snap \in {calculateBalanceForDate(accounts, checks, cash, rows, userId, date)} :
              /\ lastOp' = [op |-> "balance", userId |-> userId, snapshot |-> snap,
                            previous |-> IF lastOp.op = "balance" /\ lastOp.userId = userId
                                         THEN <<lastOp.snapshot>> ELSE <<>>]
              /\ accounts' = [a \in 1..Len(accounts) |->
                                IF accounts[a].user_id = userId
                                THEN [accounts[a] EXCEPT !.opening_balance =
                                        accountBalanceEntry(accounts, checks, a, date).balance]
                                ELSE accounts[a]]
    /\ UNCHANGED <<checks, cash, templates, today, calc, running>>

\* GET /dashboard/balance?date=
\* previous: the snapshot the same user got from the call just before this
\* one, when no other call came in between
GetBalance(userId, date) ==
    /\ \E rows \in accountRowOrders(accounts, userId) :
          lastOp' = [op |-> "balance", userId |-> userId,
                     snapshot |-> calculateBalanceForDate(accounts, checks, cash,
                                                          rows, userId, date),
                     previous |-> IF lastOp.op = "balance" /\ lastOp.userId = userId
                                  THEN <<lastOp.snapshot>> ELSE <<>>]
    /\ UNCHANGED <<accounts, checks, cash, templates, today, calc, running>>

\* PUT /accounts/:id; the body's bank_name and account_number are present, a
\* field the body leaves out is Null
UpdateAccount(id, userId, accountData) ==
    /\ \E r \in {updateAccount(accounts, id, userId, accountData)} :
          /\ accounts' = r.accounts
          /\ lastOp' = [op |-> "updateAccount", status |-> IF r.found THEN 200 ELSE 404,
                        id |-> id, body |-> accountData]
    /\ UNCHANGED <<checks, cash, templates, today, calc, running>>

InitBalance ==
    /\ accounts = <<>>
    /\ checks = <<>>
    /\ cash = <<>>
    /\ templates = <<>>
    /\ today = 0
    /\ lastOp = [op |-> "init"]
    /\ calc = NoCalc
    /\ running = NoneRunning

NextBalance ==
    \/ \E u \in Users, accountData \in AccountInputs : CreateAccount(u, accountData)
    \/ \E u \in Users, checkData \in CheckInputs : CreateCheck(u, checkData)
    \/ \E u \in Users, cashData \in CashInputs : CreateCashTransaction(u, cashData)
    \/ \E u \in Users, date \in QueryDates : GetBalance(u, date)

SpecBalance == InitBalance /\ [][NextBalance]_vars

---------------------------------------------------------------------------
(* The account specification: accounts are created and edited, checks are  *)
(* written, balances are read                                              *)

\* bodies of the account update: a new threshold with the opening balance
\* left out, and a new opening balance with the threshold left out
AccountUpdates ==
    { [low_balance_threshold |-> 20, opening_balance |-> Null],
      [low_balance_threshold |-> Null, opening_balance |-> 100] }

NextAccounts ==
    \/ \E u \in Users, accountData \in AccountInputs : CreateAccount(u, accountData)
    \/ \E id \in 1..MaxAccounts, u \in Users, accountData \in AccountUpdates :
          UpdateAccount(id, u, accountData)
    \/ \E u \in Users, checkData \in {c \in CheckInputs : c.date = 10 /\ c.amount = 30} :
          CreateCheck(u, checkData)
    \/ \E u \in Users, date \in QueryDates : GetBalance(u, date)

SpecAccounts == InitBalance /\ [][NextAccounts]_vars

---------------------------------------------------------------------------
(* The handlers call by call: every awaited storage call of the job and of *)
(* the trigger endpoint is a step, so that invocations interleave          *)

MaxRaceLedger == 4

\* the phase after the row at pos has been dealt with
phaseAfter(r) == IF r.pos >= Len(r.due) THEN "done" ELSE "create"

\* the catch block of the job's loop, or the trigger's catch (500), after a
\* storage call failed for the row at pos
failedAt(r) ==
    IF r.kind = "batch"
    THEN [r EXCEPT !.results.failed = @ + 1,
                   !.results.errors =
                       Append(@, [recurring_transaction_id |-> r.due[r.pos].id]),
                   !.pos = @ + 1,
                   !.phase = phaseAfter(r)]
    ELSE [r EXCEPT !.results.failed = @ + 1, !.phase = "done"]

\* the job starts: it computes dateStr and awaits the listing
BatchStart(p, listingFails) ==
    /\ running[p].phase = "idle"
    /\ \E listed \in {listDueTransactions(templates, today, listingFails)} :
          IF ~listed.ok
          THEN /\ lastOp' = [op |-> "batchThrown", date |-> today,
                             listingFailed |-> listingFails]
               /\ UNCHANGED running
          ELSE \E dueTransactions \in listed.rows :
                  /\ running' = [running EXCEPT ![p] =
                        [Idle EXCEPT !.kind = "batch",
                                     !.dateStr = today,
                                     !.due = dueTransactions,
                                     !.pos = 1,
                                     !.phase = IF dueTransactions = <<>> THEN "done"
                                               ELSE "create"]]
                  /\ lastOp' = [op |-> "step", invocation |-> p, call |-> "list",
                                ids |-> {dueTransactions[i].id :
                                            i \in 1..Len(dueTransactions)}]
    /\ UNCHANGED <<accounts, checks, cash, templates, today, calc>>

\* the trigger endpoint starts: it awaits getRecurringTransactionById and
\* answers 404 or 400 at once
TriggerStart(p, id, userId, date) ==
    /\ running[p].phase = "idle"
    /\ IF ~templateFound(templates, id, userId)
       THEN /\ lastOp' = [op |-> "trigger", status |-> 404, id |-> id, userId |-> userId,
                         date |-> date]
            /\ UNCHANGED running
       ELSE IF ~templates[id].is_active
       THEN /\ lastOp' = [op |-> "trigger", status |-> 400, id |-> id, userId |-> userId,
                         date |-> date]
            /\ UNCHANGED running
       ELSE /\ running' = [running EXCEPT ![p] =
                  [Idle EXCEPT !.kind = "trigger",
                               !.userId = userId,
                               !.dateStr = date,
                               !.due = <<templates[id]>>,
                               !.pos = 1,
                               !.phase = "create"]]
            /\ lastOp' = [op |-> "step", invocation |-> p, call |-> "read", ids |-> {id}]
    /\ UNCHANGED <<accounts, checks, cash, templates, today, calc>>

\* await createCheck(...) / createCashTransaction(...), but skipped when the
\* stored row already carries the invocation's date as last_created_date
StepCreateOncePerDate(p, storageFails) ==
    /\ running[p].phase = "create"
    /\ ledgerSize < MaxRaceLedger
    /\ LET r == running[p]
           rt == r.due[r.pos]
       IN  IF templates[rt.id].last_created_date = r.dateStr
           THEN /\ running' = [running EXCEPT ![p] =
                                 [r EXCEPT !.pos = @ + 1, !.phase = phaseAfter(r)]]
                /\ lastOp' = [op |-> "step", invocation |-> p, call |-> "create",
                              id |-> rt.id, fails |-> storageFails, ok |-> FALSE]
                /\ UNCHANGED <<checks, cash>>
           ELSE \E w \in {fire(accounts,
                               [checks |-> checks, cash |-> cash, templates |-> templates],
                               rt, IF r.kind = "batch" THEN rt.user_id ELSE r.userId,
                               r.dateStr, IF storageFails THEN "create" ELSE "mark")} :
                   /\ checks' = w.db.checks
                   /\ cash' = w.db.cash
                   /\ running' = [running EXCEPT ![p] =
                                    IF w.created = <<>> THEN failedAt(r)
                                    ELSE [r EXCEPT !.phase = "mark",
                                                   !.log = @ \o w.created]]
                   /\ lastOp' = [op |-> "step", invocation |-> p, call |-> "create",
                                 id |-> rt.id, fails |-> storageFails,
                                 ok |-> w.created # <<>>]
    /\ UNCHANGED <<accounts, templates, today, calc>>

\* await createCheck(...) / createCashTransaction(...) for the row at pos, as
\* the invocation read it: fire with the mark call left out
StepCreate(p, storageFails) ==
    /\ running[p].phase = "create"
    /\ ledgerSize < MaxRaceLedger
    /\ LET r == running[p]
           rt == r.due[r.pos]
       IN  \E w \in {fire(accounts,
                           [checks |-> checks, cash |-> cash, templates |-> templates],
                           rt, IF r.kind = "batch" THEN rt.user_id ELSE r.userId,
                           r.dateStr, IF storageFails THEN "create" ELSE "mark")} :
               /\ checks' = w.db.checks
               /\ cash' = w.db.cash
               /\ running' = [running EXCEPT ![p] =
                                IF w.created = <<>> THEN failedAt(r)
                                ELSE [r EXCEPT !.phase = "mark",
                                               !.log = @ \o w.created]]
               /\ lastOp' = [op |-> "step", invocation |-> p, call |-> "create",
                             id |-> rt.id, fails |-> storageFails,
                             ok |-> w.created # <<>>]
    /\ UNCHANGED <<accounts, templates, today, calc>>

\* await markRecurringTransactionCreated(id, dateStr): it reads the stored
\* row's recurrence fields and writes the two dates
StepMark(p, storageFails) ==
    /\ running[p].phase = "mark"
    /\ LET r == running[p]
           rt == r.due[r.pos]
       IN  IF storageFails
           THEN /\ running' = [running EXCEPT ![p] = failedAt(r)]
                /\ UNCHANGED templates
           ELSE /\ templates' = markRecurringTransactionCreated(templates, rt.id, r.dateStr)
                /\ running' = [running EXCEPT ![p] =
                                 [r EXCEPT !.results.processed = @ + 1,
                                           !.pos = @ + 1,
                                           !.phase = phaseAfter(r)]]
    /\ lastOp' = [op |-> "step", invocation |-> p, call |-> "mark",
                  id |-> running[p].due[running[p].pos].id, fails |-> storageFails,
                  ok |-> ~storageFails]
    /\ UNCHANGED <<accounts, checks, cash, today, calc>>

\* the invocation returns: the job its summary, the trigger 200 or 500
Return(p) ==
    /\ running[p].phase = "done"
    /\ LET r == running[p]
       IN  lastOp' = [op |-> "return", invocation |-> p, kind |-> r.kind,
                      date |-> r.dateStr,
                      due |-> [i \in 1..Len(r.due) |-> r.due[i].id],
                      results |-> r.results, log |-> r.log]
    /\ running' = [running EXCEPT ![p] = Idle]
    /\ UNCHANGED <<accounts, checks, cash, templates, today, calc>>

\* two templates exist: a daily cash template of user 2 and a daily check
\* template of user 1 on account 1, both started on 2024-03-04
RaceTables ==
    LET daily == [frequency |-> "daily", start_date |-> 428, end_date |-> Null,
                  day_of_month |-> Null, day_of_week |-> Null]
    IN  insertRecurringTransaction(
            insertRecurringTransaction(<<>>, 2, CashKind @@ daily),
            1, CheckKind(1) @@ daily)

InitRace ==
    /\ accounts = SeedAccounts
    /\ checks = <<>>
    /\ cash = <<>>
    /\ templates = RaceTables
    /\ today = 428
    /\ lastOp = [op |-> "init"]
    /\ calc = NoCalc
    /\ running = NoneRunning

NextRace ==
    \/ \E p \in Invocations, listingFails \in BOOLEAN : BatchStart(p, listingFails)
    \/ \E p \in Invocations, u \in Users, date \in {today} :
          TriggerStart(p, 1, u, date)
    \/ \E p \in Invocations, storageFails \in BOOLEAN : StepCreate(p, storageFails)
    \/ \E p \in Invocations, storageFails \in BOOLEAN : StepMark(p, storageFails)
    \/ \E p \in Invocations : Return(p)
    \/ \E date \in {429} : Tick(date)

SpecRace == InitRace /\ [][NextRace]_vars

---------------------------------------------------------------------------
(* The deactivation specification: the owner switches a template off while *)
(* invocations of the job and of the trigger endpoint are in flight        *)

\* invocation 1 is a run of the job, invocation 2 a trigger of template 1
NextDeactivate ==
    \/ \E listingFails \in BOOLEAN : BatchStart(1, listingFails)
    \/ \E u \in Users, date \in {today} : TriggerStart(MaxInvocations, 1, u, date)
    \/ \E p \in Invocations, storageFails \in BOOLEAN : StepCreate(p, storageFails)
    \/ \E p \in Invocations, storageFails \in BOOLEAN : StepMark(p, storageFails)
    \/ \E p \in Invocations : Return(p)
    \/ \E id \in 1..Len(templates), u \in Users :
          UpdateRecurringTransaction(id, u, [is_active |-> FALSE])

\* 2024-03-05: both templates are due
InitDeactivate ==
    /\ accounts = SeedAccounts
    /\ checks = <<>>
    /\ cash = <<>>
    /\ templates = RaceTables
    /\ today = 429
    /\ lastOp = [op |-> "init"]
    /\ calc = NoCalc
    /\ running = NoneRunning

SpecDeactivate == InitDeactivate /\ [][NextDeactivate]_vars

---------------------------------------------------------------------------
(* The end-date specification: templates with an end date, created through *)
(* the endpoint, and the daily job on the days the server is up            *)

\* daily until 2024-03-06, weekly until 2024-03-12, monthly on the 31st from
\* 2024-01-31 until 2024-03-31, daily without end
EndSchedules ==
    { [frequency |-> "daily", start_date |-> 428, end_date |-> 430,
       day_of_month |-> Null, day_of_week |-> Null],
      [frequency |-> "weekly", start_date |-> 428, end_date |-> 436,
       day_of_month |-> Null, day_of_week |-> Null],
      [frequency |-> "monthly", start_date |-> 395, end_date |-> 455,
       day_of_month |-> 31, day_of_week |-> Null],
      [frequency |-> "daily", start_date |-> 428, end_date |-> Null,
       day_of_month |-> Null, day_of_week |-> Null] }

EndRequests ==
    {[userId |-> 1, body |-> CheckKind(1) @@ sch] : sch \in EndSchedules}
    \cup {[userId |-> 2, body |-> CashKind @@ sch] : sch \in EndSchedules}

\* the server's dates: 2024-03-04 to 2024-03-06, 2024-03-11, 2024-04-01
EndClockDates == {428, 429, 430, 435, 456}

NextEnd ==
    \/ \E req \in EndRequests : CreateRecurringTransaction(req.userId, req.body)
    \/ \E id \in 1..Len(templates), u \in Users :
          UpdateRecurringTransaction(id, u, [end_date |-> 436])
    \/ \E f \in BatchFaults : ProcessDueRecurringTransactions(f.faultAt, f.listingFails)
    \/ \E date \in EndClockDates : Tick(date)

SpecEnd == Init /\ [][NextEnd]_vars

---------------------------------------------------------------------------
(* The sequence specification: runs of the job, call by call, over three   *)
(* templates that fall due on different dates                              *)

\* due on 2024-03-05, on 2024-03-07 and on 2024-03-11
SequenceSchedules ==
    { [frequency |-> "daily", start_date |-> 428, end_date |-> Null,
       day_of_month |-> Null, day_of_week |-> Null],
      [frequency |-> "daily", start_date |-> 430, end_date |-> Null,
       day_of_month |-> Null, day_of_week |-> Null],
      [frequency |-> "weekly", start_date |-> 428, end_date |-> Null,
       day_of_month |-> Null, day_of_week |-> Null] }

\* a cash template of user 2, a check template of user 1, a cash template
\* of user 2, each with any of the schedules
SequenceTables ==
    { insertRecurringTransaction(
          insertRecurringTransaction(
              insertRecurringTransaction(<<>>, 2, CashKind @@ s1),
              1, CheckKind(1) @@ s2),
          2, CashKind @@ s3) : s1 \in SequenceSchedules, s2 \in SequenceSchedules,
                              s3 \in SequenceSchedules }

\* 2024-03-11: every template is due
InitSequence ==
    /\ accounts = SeedAccounts
    /\ checks = <<>>
    /\ cash = <<>>
    /\ templates \in SequenceTables
    /\ today = 435
    /\ lastOp = [op |-> "init"]
    /\ calc = NoCalc
    /\ running = NoneRunning

\* invocation 1 is a run of the job, invocation 2 the owner's trigger of
\* template 1
NextSequence ==
    \/ \E listingFails \in BOOLEAN : BatchStart(1, listingFails)
    \/ \E date \in {today} : TriggerStart(MaxInvocations, 1, 2, date)
    \/ \E p \in Invocations, storageFails \in BOOLEAN : StepCreate(p, storageFails)
    \/ \E p \in Invocations, storageFails \in BOOLEAN : StepMark(p, storageFails)
    \/ \E p \in Invocations : Return(p)

SpecSequence == InitSequence /\ [][NextSequence]_vars

---------------------------------------------------------------------------
(* The advance specification: one template of any frequency, day of month  *)
(* and day of week, overdue on the date of the job's runs                  *)

\* every recurrence the create endpoint accepts, started on 2023-01-01
AdvanceSchedules ==
    {[frequency |-> c.frequency, start_date |-> 0, end_date |-> Null,
      day_of_month |-> c.dayOfMonth, day_of_week |-> c.dayOfWeek] :
        c \in {x \in CalcInputs : x.lastDate = 0}}

AdvanceTables ==
    {insertRecurringTransaction(<<>>, 2, CashKind @@ sch) : sch \in AdvanceSchedules}

\* the dates of the runs: 2024-01-25 to 2024-03-05 (the leap February),
\* 2024-03-28 to 2024-05-02 (months of 31 and of 30 days), 2024-12-25 to
\* 2025-01-05 (the turn of the year)
AdvanceDates == 389..429 \cup 452..487 \cup 724..735

InitAdvance ==
    /\ accounts = SeedAccounts
    /\ checks = <<>>
    /\ cash = <<>>
    /\ templates \in AdvanceTables
    /\ today \in AdvanceDates
    /\ lastOp = [op |-> "init"]
    /\ calc = NoCalc
    /\ running = NoneRunning

NextAdvance ==
    \E f \in BatchFaults : ProcessDueRecurringTransactions(f.faultAt, f.listingFails)

SpecAdvance == InitAdvance /\ [][NextAdvance]_vars

---------------------------------------------------------------------------
(* The daily specification: the job runs once at the end of every calendar *)
(* day and no storage call fails, while users create, update and trigger   *)

\* 2024-03-13.  The days from LastDay on are not told apart: for a template
\* whose next_due_date is not later than LastDay the filter gives the same
\* answer on all of them.
LastDay == 437

\* the day's run of the job: no storage call fails
DailyJob ==
    /\ ~(lastOp.op = "batch" /\ lastOp.date = today)
    /\ ProcessDueRecurringTransactions([i \in 1..Len(templates) |-> "none"], FALSE)

\* the day ends after the job has run on it
Midnight ==
    /\ lastOp.op = "batch"
    /\ lastOp.date = today
    /\ today' = Min(today + 1, LastDay)
    /\ lastOp' = [op |-> "tick"]
    /\ UNCHANGED <<accounts, checks, cash, templates, calc, running>>

\* cash templates of user 2: daily and weekly ones
DailyRequests ==
    {req \in CreateRequests : /\ req.body.description = CashKind.description
                              /\ req.body.transaction_type = "cash"
                              /\ req.body.frequency \in {"daily", "weekly"}}

\* the updates that leave the template materializable
DailyUpdates == {body \in UpdateBodies : ~Has(body, "transaction_type")}

NextDaily ==
    \/ \E req \in DailyRequests : CreateRecurringTransaction(req.userId, req.body)
    \/ \E id \in 1..MaxTemplates, body \in DailyUpdates :
          UpdateRecurringTransaction(id, 2, body)
    \/ \E id \in 1..MaxTemplates, date \in TriggerDates :
          TriggerRecurringTransaction(id, 2, date, "none")
    \/ DailyJob
    \/ Midnight

\* cron starts the job every day, and the days go by
SpecDaily == Init /\ [][NextDaily]_vars /\ WF_vars(DailyJob) /\ SF_vars(Midnight)

---------------------------------------------------------------------------
(* The weekly specification: one weekly template created with a day of     *)
(* week, then fired by the job and by the trigger endpoint                 *)

\* the body of the create request: weekly from 2024-03-04 on weekday w
WeeklyBody(w) ==
    CashKind @@ [frequency |-> "weekly", start_date |-> 428, end_date |-> Null,
                 day_of_month |-> Null, day_of_week |-> w]

\* the state after the create request: calc holds the call of
\* calculateNextDueDate the model layer made for it
InitWeekly ==
    /\ accounts = SeedAccounts
    /\ checks = <<>>
    /\ cash = <<>>
    /\ \E w \in 0..6 :
          /\ templates = insertRecurringTransaction(<<>>, 2, WeeklyBody(w))
          /\ calc = [args |-> [frequency |-> "weekly", lastDate |-> 428,
                               dayOfMonth |-> Null, dayOfWeek |-> w],
                     result |-> calculateNextDueDate("weekly", 428, Null, w)]
    /\ today = 428
    /\ lastOp = [op |-> "create", status |-> 201]
    /\ running = NoneRunning

NextWeekly ==
    \/ \E date \in TriggerDates \cup {today}, fault \in Faults :
          TriggerRecurringTransaction(1, 2, date, fault)
    \/ \E f \in BatchFaults : ProcessDueRecurringTransactions(f.faultAt, f.listingFails)
    \/ \E date \in ClockDates : Tick(date)

SpecWeekly == InitWeekly /\ [][NextWeekly]_vars

---------------------------------------------------------------------------
(* The snapshot specification: calculateBalanceForDate query by query,     *)
(* while checks and cash rows are inserted                                 *)

\* the entry pushed to accountBalances from the account row read by the
\* first query and the two sums read for it
accountEntryOf(account, accountId, incomingTotal, outgoingTotal) ==
    LET openingBalance == orZero(account.opening_balance)
        balance == openingBalance + incomingTotal - outgoingTotal
    IN  [account_id |-> accountId,
         balance |-> balance,
         low_balance_threshold |-> orZero(account.low_balance_threshold),
         is_low_balance |-> balance < orZero(account.low_balance_threshold)]

\* the call starts: it awaits the accounts query.  due holds the ids of the
\* rows in the order returned, results the locals of the call and the sizes
\* of the ledger tables when the call started
BalanceStart(p, userId, date) ==
    /\ running[p].phase = "idle"
    /\ \E rows \in accountRowOrders(accounts, userId) :
          running' = [running EXCEPT ![p] =
              [Idle EXCEPT !.kind = "balance",
                           !.userId = userId,
                           !.dateStr = date,
                           !.due = rows,
                           !.pos = 1,
                           !.phase = "cash",
                           !.results = [accountRows |-> accounts,
                                        cashNetBalance |-> 0,
                                        incomingTotal |-> 0,
                                        overallBalance |-> 0,
                                        accountBalances |-> <<>>,
                                        checksAtStart |-> Len(checks),
                                        cashAtStart |-> Len(cash)]]]
    /\ lastOp' = [op |-> "query", invocation |-> p, call |-> "accounts"]
    /\ UNCHANGED <<accounts, checks, cash, templates, today, calc>>

\* await query(SELECT ... credit_total, debit_total FROM cash ...)
StepCashTotals(p) ==
    /\ running[p].phase = "cash"
    /\ LET r == running[p]
           cashNetBalance == cashTotal(cash, Len(cash), r.userId, "credit", r.dateStr)
                             - cashTotal(cash, Len(cash), r.userId, "debit", r.dateStr)
       IN  running' = [running EXCEPT ![p] =
              [r EXCEPT !.results.cashNetBalance = cashNetBalance,
                        !.results.overallBalance = cashNetBalance,
                        !.phase = IF r.due = <<>> THEN "done" ELSE "incoming"]]
    /\ lastOp' = [op |-> "query", invocation |-> p, call |-> "cash"]
    /\ UNCHANGED <<accounts, checks, cash, templates, today, calc>>

\* await query(SELECT ... FROM checks WHERE ... type = 'incoming' ...) for
\* the account at pos
StepIncoming(p) ==
    /\ running[p].phase = "incoming"
    /\ LET r == running[p]
       IN  running' = [running EXCEPT ![p] =
              [r EXCEPT !.results.incomingTotal =
                            checksTotal(checks, Len(checks), r.due[r.pos], "incoming",
                                        r.dateStr),
                        !.phase = "outgoing"]]
    /\ lastOp' = [op |-> "query", invocation |-> p, call |-> "incoming"]
    /\ UNCHANGED <<accounts, checks, cash, templates, today, calc>>

\* await query(SELECT ... type = 'outgoing' ...) for the account at pos,
\* then the rest of the loop body
StepOutgoing(p) ==
    /\ running[p].phase = "outgoing"
    /\ LET r == running[p]
           id == r.due[r.pos]
           entry == accountEntryOf(r.results.accountRows[id], id, r.results.incomingTotal,
                                   checksTotal(checks, Len(checks), id, "outgoing",
                                               r.dateStr))
       IN  running' = [running EXCEPT ![p] =
              [r EXCEPT !.results.accountBalances = Append(@, entry),
                        !.results.overallBalance = @ + entry.balance,
                        !.pos = @ + 1,
                        !.phase = IF r.pos >= Len(r.due) THEN "done" ELSE "incoming"]]
    /\ lastOp' = [op |-> "query", invocation |-> p, call |-> "outgoing"]
    /\ UNCHANGED <<accounts, checks, cash, templates, today, calc>>

\* the call returns its snapshot
BalanceReturn(p) ==
    /\ running[p].phase = "done"
    /\ running[p].kind = "balance"
    /\ LET r == running[p]
       IN  lastOp' = [op |-> "snapshot", invocation |-> p, userId |-> r.userId,
                      rows |-> r.due,
                      checksAtStart |-> r.results.checksAtStart,
                      cashAtStart |-> r.results.cashAtStart,
                      snapshot |-> [date |-> r.dateStr,
                                    overall_balance |-> r.results.overallBalance,
                                    account_balances |-> r.results.accountBalances,
                                    cash_balance |-> r.results.cashNetBalance]]
    /\ running' = [running EXCEPT ![p] = Idle]
    /\ UNCHANGED <<accounts, checks, cash, templates, today, calc>>

\* user 1 has two accounts
InitSnapshot ==
    /\ accounts = createAccount(createAccount(<<>>, 1, [opening_balance |-> 100,
                                                        low_balance_threshold |-> Null]),
                                1, [opening_balance |-> 0 - 50,
                                    low_balance_threshold |-> 20])
    /\ checks = <<>>
    /\ cash = <<>>
    /\ templates = <<>>
    /\ today = 0
    /\ lastOp = [op |-> "init"]
    /\ calc = NoCalc
    /\ running = NoneRunning

NextSnapshot ==
    \/ \E p \in Invocations : BalanceStart(p, 1, 10)
    \/ \E p \in Invocations : StepCashTotals(p)
    \/ \E p \in Invocations : StepIncoming(p)
    \/ \E p \in Invocations : StepOutgoing(p)
    \/ \E p \in Invocations : BalanceReturn(p)
    \/ \E checkData \in {c \in CheckInputs : c.date = 10 /\ c.amount = 30} :
          CreateCheck(1, checkData)
    \/ \E cashData \in {c \in CashInputs : c.date = 10} : CreateCashTransaction(1, cashData)

SpecSnapshot == InitSnapshot /\ [][NextSnapshot]_vars

---------------------------------------------------------------------------
(* The fire specification: one template of each kind, fired by its owner's *)
(* trigger and by the job, over a ledger whose balances are observed       *)

\* user 1 owns accounts 1 and 2, user 2 owns account 3
FireAccounts ==
    createAccount(
        createAccount(
            createAccount(<<>>, 1, [opening_balance |-> 100, low_balance_threshold |-> Null]),
            1, [opening_balance |-> 0 - 50, low_balance_threshold |-> 20]),
        2, [opening_balance |-> 70, low_balance_threshold |-> Null])

\* check templates of both directions on either account of user 1, cash
\* templates of both directions
FireKinds ==
    {[CheckKind(a) EXCEPT !.check_type = t] : a \in 1..2, t \in {"incoming", "outgoing"}}
    \cup {[CashKind EXCEPT !.cash_type = t] : t \in {"credit", "debit"}}

\* the create request of user 1 that led to the initial table
FireTables ==
    {insertRecurringTransaction(<<>>, 1, k @@ sch) : k \in FireKinds, sch \in Schedules}

InitFire ==
    /\ accounts = FireAccounts
    /\ checks = <<>>
    /\ cash = <<>>
    /\ templates \in FireTables
    /\ today = 428
    /\ lastOp = [op |-> "init"]
    /\ calc = NoCalc
    /\ running = NoneRunning

NextFire ==
    \/ \E u \in Users, date \in TriggerDates, fault \in Faults :
          TriggerRecurringTransaction(1, u, date, fault)
    \/ \E f \in BatchFaults : ProcessDueRecurringTransactions(f.faultAt, f.listingFails)
    \/ \E date \in ClockDates : Tick(date)

SpecFire == InitFire /\ [][NextFire]_vars

---------------------------------------------------------------------------
(* The isolation specification: user 2 works on every row there is, its    *)
(* own and user 1's, while user 1's balances are observed                  *)

\* a field of the row unless the body carries it: COALESCE($n, column) with
\* $n = field || null
keep(new, old) == IF new = Null THEN old ELSE new

keepStr(new, old) == IF new = NullStr THEN old ELSE new

\* the UPDATE of updateCheck, but without its EXISTS ownership clause
updateCheckAnyOwner(accts, chks, checkId, userId, checkData) ==
    IF /\ checkData.bank_account_id # Null
       /\ ~accountOwned(accts, checkData.bank_account_id, userId)
    THEN [ok |-> FALSE, found |-> FALSE, checks |-> chks]
    ELSE IF checkId \in 1..Len(chks)
    THEN [ok |-> TRUE, found |-> TRUE,
          checks |-> [chks EXCEPT ![checkId] =
              [bank_account_id |-> keep(checkData.bank_account_id, @.bank_account_id),
               type |-> keepStr(checkData.type, @.type),
               amount |-> keep(checkData.amount, @.amount),
               date |-> keep(checkData.date, @.date),
               payee_payer_name |-> keepStr(checkData.payee_payer_name,
                                            @.payee_payer_name)]]]
    ELSE [ok |-> TRUE, found |-> FALSE, checks |-> chks]

\* updateCheck: the new account, when the body names one, must be the
\* caller's (ok = FALSE models the throw); the UPDATE matches the row only
\* if its present account is the caller's.  Rows are identified by their
\* position in the table.
updateCheck(accts, chks, checkId, userId, checkData) ==
    IF /\ checkData.bank_account_id # Null
       /\ ~accountOwned(accts, checkData.bank_account_id, userId)
    THEN [ok |-> FALSE, found |-> FALSE, checks |-> chks]
    ELSE IF /\ checkId \in 1..Len(chks)
            /\ accountOwned(accts, chks[checkId].bank_account_id, userId)
    THEN [ok |-> TRUE, found |-> TRUE,
          checks |-> [chks EXCEPT ![checkId] =
              [bank_account_id |-> keep(checkData.bank_account_id, @.bank_account_id),
               type |-> keepStr(checkData.type, @.type),
               amount |-> keep(checkData.amount, @.amount),
               date |-> keep(checkData.date, @.date),
               payee_payer_name |-> keepStr(checkData.payee_payer_name,
                                            @.payee_payer_name)]]]
    ELSE [ok |-> TRUE, found |-> FALSE, checks |-> chks]

\* the table without row n
without(table, n) ==
    SubSeq(table, 1, n - 1) \o SubSeq(table, n + 1, Len(table))

\* deleteCheck: DELETE FROM checks WHERE id = $1 AND EXISTS (the account of
\* the row is the caller's)
deleteCheck(accts, chks, checkId, userId) ==
    IF /\ checkId \in 1..Len(chks)
       /\ accountOwned(accts, chks[checkId].bank_account_id, userId)
    THEN [found |-> TRUE, checks |-> without(chks, checkId)]
    ELSE [found |-> FALSE, checks |-> chks]

\* updateCashTransaction: UPDATE cash SET ... WHERE id = $5 AND user_id = $6
updateCashTransaction(csh, cashId, userId, cashData) ==
    IF cashId \in 1..Len(csh) /\ csh[cashId].user_id = userId
    THEN [found |-> TRUE,
          cash |-> [csh EXCEPT ![cashId] =
              [user_id |-> @.user_id,
               type |-> keepStr(cashData.type, @.type),
               amount |-> keep(cashData.amount, @.amount),
               date |-> keep(cashData.date, @.date),
               description |-> keepStr(cashData.description, @.description)]]]
    ELSE [found |-> FALSE, cash |-> csh]

\* deleteCashTransaction: DELETE FROM cash WHERE id = $1 AND user_id = $2
deleteCashTransaction(csh, cashId, userId) ==
    IF cashId \in 1..Len(csh) /\ csh[cashId].user_id = userId
    THEN [found |-> TRUE, cash |-> without(csh, cashId)]
    ELSE [found |-> FALSE, cash |-> csh]

\* PUT /checks/:id
UpdateCheck(id, userId, checkData) ==
    /\ \E r \in {updateCheck(accounts, checks, id, userId, checkData)} :
          /\ checks' = r.checks
          /\ lastOp' = [op |-> "updateCheck", status |-> IF r.found THEN 200 ELSE 404,
                        id |-> id, userId |-> userId]
    /\ UNCHANGED <<accounts, cash, templates, today, calc, running>>

\* DELETE /checks/:id
DeleteCheck(id, userId) ==
    /\ \E r \in {deleteCheck(accounts, checks, id, userId)} :
          /\ checks' = r.checks
          /\ lastOp' = [op |-> "deleteCheck", status |-> IF r.found THEN 200 ELSE 404,
                        id |-> id, userId |-> userId]
    /\ UNCHANGED <<accounts, cash, templates, today, calc, running>>

\* PUT /cash/:id
UpdateCashTransaction(id, userId, cashData) ==
    /\ \E r \in {updateCashTransaction(cash, id, userId, cashData)} :
          /\ cash' = r.cash
          /\ lastOp' = [op |-> "updateCash", status |-> IF r.found THEN 200 ELSE 404,
                        id |-> id, userId |-> userId]
    /\ UNCHANGED <<accounts, checks, templates, today, calc, running>>

\* DELETE /cash/:id
DeleteCashTransaction(id, userId) ==
    /\ \E r \in {deleteCashTransaction(cash, id, userId)} :
          /\ cash' = r.cash
          /\ lastOp' = [op |-> "deleteCash", status |-> IF r.found THEN 200 ELSE 404,
                        id |-> id, userId |-> userId]
    /\ UNCHANGED <<accounts, checks, templates, today, calc, running>>

\* bodies of the check update: a new amount, a move to account 1, a move to
\* account 2 with a new direction, a new date
CheckUpdates ==
    { [bank_account_id |-> Null, type |-> NullStr, amount |-> 70, date |-> Null,
       payee_payer_name |-> NullStr],
      [bank_account_id |-> 1, type |-> NullStr, amount |-> Null, date |-> Null,
       payee_payer_name |-> NullStr],
      [bank_account_id |-> 2, type |-> "outgoing", amount |-> Null, date |-> Null,
       payee_payer_name |-> NullStr],
      [bank_account_id |-> Null, type |-> NullStr, amount |-> Null, date |-> 420,
       payee_payer_name |-> NullStr] }

\* bodies of the cash update: a new amount and direction, a new date
CashUpdates ==
    { [type |-> "debit", amount |-> 70, date |-> Null, description |-> NullStr],
      [type |-> NullStr, amount |-> Null, date |-> 420, description |-> NullStr] }

\* account 1 and one check on it belong to user 1, account 2 to user 2; each user has a daily template: a cash template of user 1, a
\* check or cash template of user 2
IsolationTables ==
    {insertRecurringTransaction(
         insertRecurringTransaction(<<>>, 1, CashKind @@ sch),
         2, k @@ sch) :
        k \in {CheckKind(2), CashKind},
        sch \in {s \in Schedules : s.frequency = "daily" /\ s.end_date = Null}}

InitIsolation ==
    /\ accounts = SeedAccounts
    /\ checks = createCheck(SeedAccounts, <<>>, 1,
                            [bank_account_id |-> 1, type |-> "incoming", amount |-> 30,
                             date |-> 428, payee_payer_name |-> "rent"], FALSE).checks
    /\ cash = <<>>
    /\ templates \in IsolationTables
    /\ today = 429
    /\ lastOp = [op |-> "init"]
    /\ calc = NoCalc
    /\ running = NoneRunning

\* every request is user 2's; the job runs for everybody
NextIsolation ==
    \/ \E a \in 1..2, t \in {"incoming", "outgoing"} :
          CreateCheck(2, [bank_account_id |-> a, type |-> t, amount |-> 30,
                          date |-> 428, payee_payer_name |-> "rent"])
    \/ \E id \in 1..MaxLedger, checkData \in CheckUpdates : UpdateCheck(id, 2, checkData)
    \/ \E id \in 1..MaxLedger : DeleteCheck(id, 2)
    \/ \E t \in {"credit", "debit"} :
          CreateCashTransaction(2, [type |-> t, amount |-> 45, date |-> 428,
                                    description |-> "salary"])
    \/ \E id \in 1..MaxLedger, cashData \in CashUpdates :
          UpdateCashTransaction(id, 2, cashData)
    \/ \E id \in 1..MaxLedger : DeleteCashTransaction(id, 2)
    \/ \E id \in 1..2, accountData \in AccountUpdates : UpdateAccount(id, 2, accountData)
    \/ \E id \in 1..2, date \in TriggerDates :
          TriggerRecurringTransaction(id, 2, date, "none")
    \/ \E id \in 1..2 : UpdateRecurringTransaction(id, 2, [is_active |-> FALSE])
    \/ ProcessDueRecurringTransactions([i \in 1..Len(templates) |-> "none"], FALSE)

SpecIsolation == InitIsolation /\ [][NextIsolation]_vars

---------------------------------------------------------------------------
(* Properties                                                              *)

\* every handler sets lastOp, so lastOp' names the handler of a step

\* ids of a sequence of ids or of errors entries
Range(seq) == {seq[k] : k \in 1..Len(seq)}

errorIds(results) == {results.errors[k].recurring_transaction_id : k \in 1..Len(results.errors)}

\* the templates a step fired successfully
firedIn(op) ==
    IF op.op = "trigger" /\ op.status = 200 THEN {op.id}
    ELSE IF op.op = "batch" THEN Range(op.due) \ errorIds(op.results)
    ELSE {}

\* the tables only grow during the step
ledgerExtended ==
    /\ Len(checks') >= Len(checks)
    /\ Len(cash') >= Len(cash)
    /\ SubSeq(checks', 1, Len(checks)) = checks
    /\ SubSeq(cash', 1, Len(cash)) = cash

\* template T = templates[id] was fired at date E during the step: exactly
\* one logged new entry with T's fields, and T's schedule advanced from E
firedAsSpecified(id, E, log) ==
    LET T == templates[id]
        entries == {k \in 1..Len(log) : log[k].recurring_id = id}
    IN  /\ Cardinality(entries) = 1
        /\ \A k \in entries :
              IF T.transaction_type = "check"
              THEN /\ log[k].table = "check"
                   /\ log[k].row > Len(checks)
                   /\ log[k].row <= Len(checks')
                   /\ checks'[log[k].row] =
                         [bank_account_id |-> T.bank_account_id, type |-> T.check_type,
                          amount |-> T.amount, date |-> E,
                          payee_payer_name |-> T.payee_payer_name]
              ELSE /\ log[k].table = "cash"
                   /\ log[k].row > Len(cash)
                   /\ log[k].row <= Len(cash')
                   /\ cash'[log[k].row] =
                         [user_id |-> T.user_id, type |-> T.cash_type,
                          amount |-> T.amount, date |-> E,
                          description |-> T.description]
        /\ templates'[id] =
              [T EXCEPT !.last_created_date = E,
                        !.next_due_date = calculateNextDueDate(T.frequency, E,
                                                               T.day_of_month,
                                                               T.day_of_week)]

\* C1: a successful fire of template T at effective date E (by the batch job
\* with process date E, or by the trigger endpoint with date E) adds exactly
\* one ledger entry dated E carrying T's account, direction, amount and payee
\* (check) or T's owner, direction, amount and description (cash), and sets
\* last_created_date = E and next_due_date = nextDueDate(frequency, E,
\* day_of_month, day_of_week).
C1_FireMaterializesAndAdvances ==
    [][ LET op == lastOp'
        IN  firedIn(op) # {} =>
              /\ ledgerExtended
              /\ \A id \in firedIn(op) : firedAsSpecified(id, op.date, op.log)
              \* every new row is the logged entry of one template
              /\ (Len(checks') - Len(checks)) + (Len(cash') - Len(cash)) = Len(op.log)
              /\ \A j, k \in 1..Len(op.log) :
                    j # k => op.log[j].recurring_id # op.log[k].recurring_id
      ]_vars

\* a batch run has just fired a check template: its entry is dated today
C1_Witness ==
    /\ lastOp.op = "batch"
    /\ lastOp.results.processed = 1
    /\ templates[1].transaction_type = "check"
    /\ templates[1].last_created_date = today
    /\ Len(checks) = 1
    /\ checks[1].date = today

\* C2: each template's stored next_due_date equals nextDueDate computed from
\* its own stored fields, anchored at last_created_date if set and at
\* start_date otherwise.
C2_NextDueDerivable ==
    \A i \in 1..Len(templates) :
        LET T == templates[i]
            anchor == IF T.last_created_date # Null THEN T.last_created_date
                                                    ELSE T.start_date
        IN  T.next_due_date = calculateNextDueDate(T.frequency, anchor,
                                                   T.day_of_month, T.day_of_week)

\* C3: in a batch run a failing template does not stop the run: every other
\* due template is materialized and advanced, processed + failed is the
\* number of due templates listed, and errors has exactly one entry per
\* failed template, naming it.
C3_BatchIsolation ==
    [][ LET op == lastOp'
        IN  op.op = "batch" =>
              LET failedIds == {id \in Range(op.due) : templates'[id] = templates[id]}
              IN  /\ op.results.processed + op.results.failed = Len(op.due)
                  /\ Len(op.results.errors) = op.results.failed
                  /\ Cardinality(errorIds(op.results)) = Len(op.results.errors)
                  /\ errorIds(op.results) = failedIds
                  /\ \A id \in Range(op.due) \ failedIds :
                        firedAsSpecified(id, op.date, op.log)
                  \* a template whose account reference is invalid is a failed one
                  /\ \A id \in Range(op.due) :
                        (/\ templates[id].transaction_type = "check"
                         /\ ~accountOwned(accounts, templates[id].bank_account_id,
                                          templates[id].user_id))
                        => id \in failedIds
      ]_vars

\* three templates were due, the second one processed has no valid account:
\* it is the one error, the other two were processed
C3_Witness ==
    /\ lastOp.op = "batch"
    /\ Len(lastOp.due) = 3
    /\ lastOp.results.processed = 2
    /\ lastOp.results.failed = 1
    /\ errorIds(lastOp.results) = {lastOp.due[2]}
    /\ templates[lastOp.due[2]].transaction_type = "check"
    /\ templates[lastOp.due[2]].bank_account_id = Null
    /\ templates[lastOp.due[1]].last_created_date = lastOp.date
    /\ templates[lastOp.due[3]].last_created_date = lastOp.date

\* C4: the batch job's listing for date D is exactly the set of templates
\* with is_active, next_due_date <= D, start_date <= next_due_date and
\* (end_date null or end_date >= next_due_date); a template whose
\* next_due_date is later than its end_date is never listed, and the run
\* leaves its is_active as it was.
C4_FindDueFilter ==
    [][ LET op == lastOp'
        IN  op.op = "batch" =>
              /\ Cardinality(Range(op.due)) = Len(op.due)
              /\ Range(op.due) =
                    {i \in 1..Len(templates) :
                        /\ templates[i].is_active
                        /\ templates[i].next_due_date <= op.date
                        /\ templates[i].start_date <= templates[i].next_due_date
                        /\ \/ templates[i].end_date = Null
                           \/ templates[i].end_date >= templates[i].next_due_date}
              /\ \A i \in 1..Len(templates) :
                    (templates[i].end_date # Null
                     /\ templates[i].next_due_date > templates[i].end_date)
                    => /\ i \notin Range(op.due)
                       /\ templates'[i].is_active = templates[i].is_active
      ]_vars

\* a run listed some template, and skipped an active one that is overdue but
\* past its end date
C4_Witness ==
    /\ lastOp.op = "batch"
    /\ Len(lastOp.due) >= 1
    /\ \E i \in 1..Len(templates) :
          /\ templates[i].is_active
          /\ templates[i].end_date # Null
          /\ templates[i].next_due_date > templates[i].end_date
          /\ templates[i].next_due_date <= lastOp.date
          /\ i \notin Range(lastOp.due)

\* sum of the balance fields of a list of account entries
RECURSIVE sumOfBalances(_)
sumOfBalances(entries) ==
    IF entries = <<>> THEN 0 ELSE Head(entries).balance + sumOfBalances(Tail(entries))

\* C5: the snapshot satisfies overall_balance = cash_balance + the sum of
\* the balance fields of account_balances, and account_balances has exactly
\* one entry per account of the user.
C5_BalanceAdditivity ==
    lastOp.op = "balance" =>
        LET snap == lastOp.snapshot
            owned == {a \in 1..Len(accounts) : accounts[a].user_id = lastOp.userId}
        IN  /\ snap.overall_balance =
                  snap.cash_balance + sumOfBalances(snap.account_balances)
            /\ Len(snap.account_balances) = Cardinality(owned)
            /\ {snap.account_balances[k].account_id :
                   k \in 1..Len(snap.account_balances)} = owned

\* a snapshot of a user with an account and cash, both non-zero
C5_Witness ==
    /\ lastOp.op = "balance"
    /\ Len(lastOp.snapshot.account_balances) = 1
    /\ lastOp.snapshot.cash_balance # 0
    /\ lastOp.snapshot.account_balances[1].balance # 0
    /\ Len(checks) = 1

\* sum of the amounts of the rows of a table whose index is in S
RECURSIVE sumOver(_, _)
sumOver(table, S) ==
    IF S = {} THEN 0
    ELSE LET k == CHOOSE k \in S : TRUE
         IN  table[k].amount + sumOver(table, S \ {k})

\* C6: for every account, balance = opening_balance + incoming checks dated
\* <= D - outgoing checks dated <= D, and cash_balance = cash credits dated
\* <= D - cash debits dated <= D; rows dated D count, later rows do not, and
\* a negative result is reported as it is.
C6_BalanceFormula ==
    lastOp.op = "balance" =>
        LET snap == lastOp.snapshot
            D == snap.date
            chk(a, t) == {k \in 1..Len(checks) :
                            /\ checks[k].bank_account_id = a
                            /\ checks[k].type = t
                            /\ checks[k].date <= D}
            csh(t) == {k \in 1..Len(cash) :
                         /\ cash[k].user_id = lastOp.userId
                         /\ cash[k].type = t
                         /\ cash[k].date <= D}
        IN  /\ \A k \in 1..Len(snap.account_balances) :
                  LET e == snap.account_balances[k]
                  IN  e.balance = accounts[e.account_id].opening_balance
                                  + sumOver(checks, chk(e.account_id, "incoming"))
                                  - sumOver(checks, chk(e.account_id, "outgoing"))
            /\ snap.cash_balance = sumOver(cash, csh("credit")) - sumOver(cash, csh("debit"))

\* an account with an outgoing check dated D and a check dated after D:
\* the first counts, the second does not, and the balance is negative
C6_Witness ==
    /\ lastOp.op = "balance"
    /\ Len(lastOp.snapshot.account_balances) = 1
    /\ Len(checks) = 2
    /\ checks[1].bank_account_id = lastOp.snapshot.account_balances[1].account_id
    /\ checks[2].bank_account_id = checks[1].bank_account_id
    /\ checks[1].type = "outgoing"
    /\ checks[1].date = lastOp.snapshot.date
    /\ checks[2].date > lastOp.snapshot.date
    /\ lastOp.snapshot.account_balances[1].balance
          = accounts[checks[1].bank_account_id].opening_balance - checks[1].amount
    /\ lastOp.snapshot.account_balances[1].balance < 0

\* months since year 0 of a date
monthIndex(n) == 12 * getFullYear(n) + getMonth(n)

\* C7: for frequency monthly, nextDueDate returns a date in the calendar
\* month following the anchor's month; with dayOfMonth its day is
\* min(dayOfMonth, days of that month), otherwise the anchor's day of month.
C7_MonthlyNextMonth ==
    (calc.result # Null /\ calc.args.frequency = "monthly") =>
        LET a == calc.args.lastDate
            r == calc.result
        IN  /\ monthIndex(r) = monthIndex(a) + 1
            /\ getDate(r) =
                  IF calc.args.dayOfMonth # Null
                  THEN Min(calc.args.dayOfMonth, DaysInMonth(getFullYear(r), getMonth(r)))
                  ELSE getDate(a)

\* C8: for frequency weekly with dayOfWeek w, nextDueDate returns the first
\* date strictly after the anchor whose weekday is w (1 to 7 days later, 7
\* when the anchor falls on w); without dayOfWeek it returns anchor + 7.
C8_WeeklyNextOccurrence ==
    (calc.result # Null /\ calc.args.frequency = "weekly") =>
        LET a == calc.args.lastDate
            r == calc.result
            w == calc.args.dayOfWeek
        IN  IF w = Null THEN r = a + 7
            ELSE /\ r - a \in 1..7
                 /\ getDay(r) = w
                 /\ \A d \in (a + 1)..(r - 1) : getDay(d) # w
                 /\ getDay(a) = w => r = a + 7

\* anchor Monday 2024-03-04 with dayOfWeek 1 gave 2024-03-11
C8_Witness ==
    /\ calc.args.frequency = "weekly"
    /\ calc.args.lastDate = 428
    /\ calc.args.dayOfWeek = 1
    /\ calc.result = 435

\* C9: for frequency yearly, nextDueDate returns a date one calendar year
\* later in the anchor's calendar month; with dayOfMonth its day is
\* min(dayOfMonth, days of that month in the new year).
C9_YearlySameMonth ==
    (calc.result # Null /\ calc.args.frequency = "yearly") =>
        LET a == calc.args.lastDate
            r == calc.result
        IN  /\ getFullYear(r) = getFullYear(a) + 1
            /\ getMonth(r) = getMonth(a)
            /\ calc.args.dayOfMonth # Null =>
                  getDate(r) = Min(calc.args.dayOfMonth,
                                   DaysInMonth(getFullYear(r), getMonth(r)))

\* C10: a template whose next_due_date is d is only ever fired with an
\* effective date >= d, by the batch job and by the trigger endpoint alike.
C10_FiredOnlyWhenDue ==
    [][ LET op == lastOp'
        IN  \A id \in firedIn(op) : op.date >= templates[id].next_due_date
      ]_vars

\* C10 as amended: every template a batch run processes had, when the run
\* listed it, a next_due_date not later than the run's date (the trigger
\* endpoint checks no such thing).
C10_BatchFiresOnlyDue ==
    [][ LET op == lastOp'
        IN  op.op = "batch" =>
              \A id \in Range(op.due) : templates[id].next_due_date <= op.date
      ]_vars

\* a batch run fired a template that was overdue: due before the run's date
C10_Witness ==
    /\ lastOp.op = "batch"
    /\ lastOp.results.processed = 1
    /\ templates[1].last_created_date = lastOp.date
    /\ templates[1].start_date < lastOp.date - 1

\* C11: a manual trigger on a template that does not exist, is not owned by
\* the caller or has is_active = false is answered with an error (404 or
\* 400): no ledger row is written and no template row changes.
C11_TriggerRejected ==
    [][ LET op == lastOp'
        IN  (/\ op.op = "trigger"
             /\ \/ op.id \notin 1..Len(templates)
                \/ templates[op.id].user_id # op.userId
                \/ templates[op.id].is_active = FALSE)
            => /\ op.status \in {400, 404}
               /\ op.status = 404 <=> (\/ op.id \notin 1..Len(templates)
                                       \/ templates[op.id].user_id # op.userId)
               /\ checks' = checks
               /\ cash' = cash
               /\ templates' = templates
      ]_vars

\* the owner's trigger on a deactivated template that had fired before was
\* answered 400
C11_Witness ==
    /\ lastOp.op = "trigger"
    /\ lastOp.status = 400
    /\ templates[1].user_id = lastOp.userId
    /\ templates[1].is_active = FALSE
    /\ templates[1].last_created_date # Null

\* another user's trigger on an existing active template was answered 404
C11_WitnessNotOwned ==
    /\ lastOp.op = "trigger"
    /\ lastOp.status = 404
    /\ Len(templates) = 1
    /\ templates[1].is_active
    /\ templates[1].user_id # lastOp.userId

\* C12: a batch run always ends with a summary, whatever storage calls fail
\* for single templates; it throws exactly when the listing of the due
\* templates fails, and then no ledger row is written and no template row
\* changes.
C12_BatchThrowsOnlyOnListing ==
    [][ LET op == lastOp'
        IN  op.op \in {"batch", "batchThrown"} =>
              /\ op.op = "batchThrown" <=> op.listingFailed
              /\ op.op = "batchThrown" =>
                    /\ checks' = checks
                    /\ cash' = cash
                    /\ templates' = templates
              /\ op.op = "batch" =>
                    /\ op.results.processed + op.results.failed = Len(op.due)
                    /\ Len(op.results.errors) = op.results.failed
      ]_vars

\* a run in which a template failed ended with a summary
C12_Witness ==
    /\ lastOp.op = "batch"
    /\ lastOp.results.failed = 1
    /\ lastOp.results.processed = 2

\* a run threw while templates were due: nothing was written
C12_WitnessThrown ==
    /\ lastOp.op = "batchThrown"
    /\ \E i \in 1..Len(templates) : isDue(templates[i], lastOp.date)
    /\ Len(checks) + Len(cash) = 0

\* the balance of each account of a snapshot, whatever the order of the entries
balanceByAccount(snap) ==
    {<<snap.account_balances[k].account_id, snap.account_balances[k].balance>> :
        k \in 1..Len(snap.account_balances)}

\* the snapshots report the same overall, cash and per-account balances
sameBalances(s1, s2) ==
    /\ s1.overall_balance = s2.overall_balance
    /\ s1.cash_balance = s2.cash_balance
    /\ balanceByAccount(s1) = balanceByAccount(s2)

\* dates of the ledger rows of a user: checks on the user's accounts, the
\* user's cash rows
ledgerDatesOf(userId) ==
    {checks[k].date : k \in {j \in 1..Len(checks) :
                                accounts[checks[j].bank_account_id].user_id = userId}}
    \cup {cash[k].date : k \in {j \in 1..Len(cash) : cash[j].user_id = userId}}

\* C13: two balance queries of a user for dates d1 < d2, with no ledger row
\* dated strictly between d1 and d2, report the same overall, cash and
\* per-account balances.
C13_MonotonicHistory ==
    (lastOp.op = "balance" /\ lastOp.previous # <<>>) =>
        LET s1 == lastOp.previous[1]
            s2 == lastOp.snapshot
        IN  (/\ s1.date < s2.date
             /\ \A d \in ledgerDatesOf(lastOp.userId) : ~(s1.date < d /\ d < s2.date))
            => sameBalances(s1, s2)

\* C13 as amended: the same, when no ledger row of the user is dated after
\* d1 and up to and including d2.
C13_MonotonicHistoryInclusive ==
    (lastOp.op = "balance" /\ lastOp.previous # <<>>) =>
        LET s1 == lastOp.previous[1]
            s2 == lastOp.snapshot
            lo == IF s1.date <= s2.date THEN s1 ELSE s2
            hi == IF s1.date <= s2.date THEN s2 ELSE s1
        IN  (/\ lo.date < hi.date
             /\ \A d \in ledgerDatesOf(lastOp.userId) : ~(lo.date < d /\ d <= hi.date))
            => sameBalances(lo, hi)

\* two queries of a user for different dates, whose one check and one cash
\* row are both dated on the earlier date: the same balances, cash non-zero
C13_Witness ==
    /\ lastOp.op = "balance"
    /\ lastOp.previous # <<>>
    /\ lastOp.previous[1].date < lastOp.snapshot.date
    /\ Len(checks) = 1
    /\ Len(cash) = 1
    /\ ledgerDatesOf(lastOp.userId) = {lastOp.previous[1].date}
    /\ lastOp.snapshot.cash_balance # 0
    /\ Len(lastOp.snapshot.account_balances) = 1
    /\ sameBalances(lastOp.previous[1], lastOp.snapshot)

\* C14: every entry of a snapshot has is_low_balance = (balance <
\* low_balance_threshold), strictly, where the threshold is the account's
\* stored one; an account created without threshold has threshold 0.
C14_LowBalanceFlag ==
    [][ LET op == lastOp'
        IN  /\ op.op = "account" =>
                  LET row == accounts'[Len(accounts')]
                  IN  row.low_balance_threshold =
                         IF op.body.low_balance_threshold = Null THEN 0
                         ELSE op.body.low_balance_threshold
            /\ op.op = "balance" =>
                  \A k \in 1..Len(op.snapshot.account_balances) :
                      LET e == op.snapshot.account_balances[k]
                      IN  /\ e.low_balance_threshold =
                                accounts[e.account_id].low_balance_threshold
                          /\ e.is_low_balance <=> e.balance < e.low_balance_threshold
      ]_vars

\* an account whose balance equals its threshold of 20 is not low
C14_Witness ==
    /\ lastOp.op = "balance"
    /\ \E k \in 1..Len(lastOp.snapshot.account_balances) :
          LET e == lastOp.snapshot.account_balances[k]
          IN  /\ e.low_balance_threshold = 20
              /\ e.balance = 20
              /\ e.is_low_balance = FALSE

\* an account created without threshold, drawn down to 0: not low
C14_WitnessUnset ==
    /\ lastOp.op = "balance"
    /\ \E k \in 1..Len(lastOp.snapshot.account_balances) :
          LET e == lastOp.snapshot.account_balances[k]
          IN  /\ e.low_balance_threshold = 0
              /\ e.balance = 0
              /\ Len(checks) = 2
              /\ e.is_low_balance = FALSE

\* the check rows of one account
checksOfAccount(a) ==
    LET Own(c) == c.bank_account_id = a
    IN  SelectSeq(checks, Own)

\* C15: the entry a snapshot reports for an account is the one the same
\* query reports on a ledger holding only that account's check rows and no
\* cash rows: cash rows and checks of other accounts change neither balance
\* nor is_low_balance; an account without check rows has balance equal to
\* its opening balance, for every date.
C15_AccountIndependence ==
    lastOp.op = "balance" =>
        \A k \in 1..Len(lastOp.snapshot.account_balances) :
            LET e == lastOp.snapshot.account_balances[k]
                a == e.account_id
                alone == calculateBalanceForDate(accounts, checksOfAccount(a), <<>>,
                                                 <<a>>, lastOp.userId,
                                                 lastOp.snapshot.date)
            IN  /\ e = alone.account_balances[1]
                /\ checksOfAccount(a) = <<>> => e.balance = accounts[a].opening_balance

\* a user with two accounts, a check on one of them and a cash row, both
\* counted: the other account reports its opening balance
C15_Witness ==
    /\ lastOp.op = "balance"
    /\ Len(lastOp.snapshot.account_balances) = 2
    /\ Len(checks) = 1
    /\ checks[1].date <= lastOp.snapshot.date
    /\ lastOp.snapshot.cash_balance # 0
    /\ \E k \in 1..2 :
          LET e == lastOp.snapshot.account_balances[k]
          IN  /\ e.account_id # checks[1].bank_account_id
              /\ e.balance = accounts[e.account_id].opening_balance
              /\ e.balance # 0

\* the entries of a snapshot, whatever their order
entriesOf(snap) == {snap.account_balances[k] : k \in 1..Len(snap.account_balances)}

\* a balance query writes nothing, and answers zeros and an empty list to a
\* user without accounts and cash rows
balanceReadOnly(op) ==
    /\ accounts' = accounts
    /\ checks' = checks
    /\ cash' = cash
    /\ templates' = templates
    /\ (/\ \A a \in 1..Len(accounts) : accounts[a].user_id # op.userId
        /\ \A k \in 1..Len(cash) : cash[k].user_id # op.userId)
       => /\ op.snapshot.overall_balance = 0
          /\ op.snapshot.cash_balance = 0
          /\ op.snapshot.account_balances = <<>>

C16_WitnessEmpty ==
    /\ lastOp.op = "balance"
    /\ lastOp.previous # <<>>
    /\ lastOp.snapshot = lastOp.previous[1]
    /\ lastOp.snapshot.account_balances = <<>>
    /\ lastOp.snapshot.overall_balance = 0
    /\ Len(accounts) >= 1

\* C17: no step on an existing account changes its stored opening_balance:
\* not an account update that carries no opening_balance (one of name,
\* number, alias or threshold), not a ledger write, not a balance query.
C17_OpeningBalanceFixed ==
    [][ LET op == lastOp'
        IN  (op.op = "updateAccount" => op.body.opening_balance = Null)
            => \A a \in 1..Len(accounts) :
                  accounts'[a].opening_balance = accounts[a].opening_balance
      ]_vars

\* C18: no batch run and no trigger changes a template's is_active; a step
\* that changes the flag of an existing template is a user update.  A
\* template past its end date keeps is_active = true.
C18_SchedulerKeepsActiveFlag ==
    [][ \A i \in 1..Len(templates) :
            templates'[i].is_active # templates[i].is_active => lastOp'.op = "update"
      ]_vars

\* a template that has fired and whose next due date lies past its end
\* date: a run on a later date lists nothing and the template is still active
C18_Witness ==
    /\ lastOp.op = "batch"
    /\ lastOp.due = <<>>
    /\ Len(templates) = 1
    /\ templates[1].end_date # Null
    /\ templates[1].last_created_date # Null
    /\ templates[1].next_due_date > templates[1].end_date
    /\ lastOp.date >= templates[1].next_due_date
    /\ templates[1].is_active = TRUE

\* the templates an invocation has created an entry for
createdBy(r) == {r.log[k].recurring_id : k \in 1..Len(r.log)}

\* C19: nothing keeps two invocations off the same template.  A listing
\* returns every template the filter admits, also one that another invocation
\* has listed and not yet advanced; and a create call made for a template
\* and date for which another invocation has already created its entry
\* writes a second entry, unless the storage call itself fails.
C19_NoMutualExclusion ==
    [][ LET op == lastOp'
        IN  /\ (op.op = "step" /\ op.call = "list") =>
                  op.ids = {i \in 1..Len(templates) :
                              /\ templates[i].is_active
                              /\ templates[i].next_due_date <= today
                              /\ templates[i].start_date <= templates[i].next_due_date
                              /\ \/ templates[i].end_date = Null
                                 \/ templates[i].end_date >= templates[i].next_due_date}
            /\ (/\ op.op = "step"
                /\ op.call = "create"
                /\ ~op.fails
                /\ \E q \in Invocations \ {op.invocation} :
                      /\ op.id \in createdBy(running[q])
                      /\ running[q].dateStr = running[op.invocation].dateStr)
               => /\ op.ok
                  /\ Len(checks') + Len(cash') = Len(checks) + Len(cash) + 1
      ]_vars

\* two runs of the job for the same date have both processed template 1:
\* two cash rows of that date, one from each run
C19_Witness ==
    /\ \A p \in {1, 2} :
          /\ running[p].kind = "batch"
          /\ running[p].phase = "done"
          /\ running[p].results.failed = 0
          /\ 1 \in createdBy(running[p])
    /\ running[1].dateStr = running[2].dateStr
    /\ Len(cash) = 2
    /\ cash[1] = cash[2]
    /\ cash[1].date = running[1].dateStr

\* a run of the job and a trigger for the same date have both materialized
\* template 1
C19_WitnessTrigger ==
    /\ running[1].kind = "batch"
    /\ running[2].kind = "trigger"
    /\ running[1].dateStr = running[2].dateStr
    /\ 1 \in createdBy(running[1])
    /\ 1 \in createdBy(running[2])
    /\ Len(cash) = 2
    /\ cash[1].date = cash[2].date

\* C20: a template of a batch run whose entry was created and whose schedule
\* advance then failed is counted as failed and named in errors, its row is
\* unchanged (last_created_date and next_due_date as before), the entry is a
\* row the run added to the ledger, dated the run's date, and the template is
\* still due for the run's date, so that
\* the next run for that date lists and materializes it again.
C20_CreatedButNotAdvanced ==
    [][ LET op == lastOp'
        IN  op.op = "batch" =>
              \A k \in 1..Len(op.log) :
                  LET id == op.log[k].recurring_id
                  IN  id \in errorIds(op.results) =>
                        /\ op.results.failed >= 1
                        /\ templates'[id] = templates[id]
                        /\ isDue(templates'[id], op.date)
                        /\ IF op.log[k].table = "check"
                           THEN /\ op.log[k].row > Len(checks)
                                /\ op.log[k].row <= Len(checks')
                                /\ checks'[op.log[k].row].date = op.date
                           ELSE /\ op.log[k].row > Len(cash)
                                /\ op.log[k].row <= Len(cash')
                                /\ cash'[op.log[k].row].date = op.date
      ]_vars

\* a weekly template was materialized twice for the date of the last run:
\* once by a run that failed to advance it, once by the retry, which did
C20_Witness ==
    /\ lastOp.op = "batch"
    /\ lastOp.results.processed = 1
    /\ Len(templates) = 1
    /\ templates[1].frequency = "weekly"
    /\ templates[1].last_created_date = lastOp.date
    /\ Len(checks) + Len(cash) = 2
    /\ \A k \in 1..Len(checks) : checks[k].date = lastOp.date
    /\ \A k \in 1..Len(cash) : cash[k].date = lastOp.date

\* a run has just created the entry of a template and failed to advance it
C20_WitnessFailedRun ==
    /\ lastOp.op = "batch"
    /\ lastOp.results.failed = 1
    /\ lastOp.results.processed = 0
    /\ Len(lastOp.log) = 1
    /\ templates[1].last_created_date = Null
    /\ isDue(templates[1], lastOp.date)
    /\ Len(checks) + Len(cash) = 1

\* C21: a template whose is_active is false gets no ledger entry: no create
\* call of a job run or of a trigger writes an entry for a template that is
\* switched off at the time of the call, also when the invocation read the
\* template before it was switched off; and the update that switches a
\* template off leaves the ledger as it is.
C21_DeactivationHaltsFiring ==
    [][ LET op == lastOp'
        IN  /\ (op.op = "step" /\ op.call = "create" /\ op.ok)
               => templates[op.id].is_active
            /\ op.op = "update" => (checks' = checks /\ cash' = cash)
      ]_vars

\* the rows of the ledger a batch step logged for template id
entryDatesOf(op, id) ==
    {IF op.log[k].table = "check" THEN checks'[op.log[k].row].date
                                  ELSE cash'[op.log[k].row].date :
        k \in {j \in 1..Len(op.log) : op.log[j].recurring_id = id}}

\* C22: a batch run whose date is later than a template's end_date does not
\* list the template, and every ledger entry a batch run creates is dated
\* within the span of its template: not after the end_date, not before the
\* start_date.
C22_NoEntryPastEndDate ==
    [][ LET op == lastOp'
        IN  op.op = "batch" =>
              /\ \A id \in 1..Len(templates) :
                    (templates[id].end_date # Null /\ op.date > templates[id].end_date)
                    => id \notin Range(op.due)
              /\ \A id \in Range(op.due) :
                    \A d \in entryDatesOf(op, id) :
                        /\ templates[id].end_date # Null => d <= templates[id].end_date
                        /\ d >= templates[id].start_date
      ]_vars

\* the position of template id in the rows an invocation listed
positionIn(r, id) == CHOOSE i \in 1..Len(r.due) : r.due[i].id = id

\* the rows of a run of the job that lie before row n
completedRows(r, n) == {r.due[i].id : i \in 1..(n - 1)}

\* C23: a run of the job holds its due templates in ascending next_due_date
\* order and deals with them one at a time in that order: when it is at row
\* pos, every row before pos is completed (counted as processed, with its
\* schedule advanced, or counted as failed and named in errors), no later row
\* has been touched, and errors names the failed templates in the order of
\* the rows.
C23_SequentialAscending ==
    \A p \in Invocations :
        LET r == running[p]
            done == IF r.phase = "done" THEN Len(r.due) + 1 ELSE r.pos
        IN  r.kind = "batch" =>
              /\ \A i, j \in 1..Len(r.due) :
                    i < j => r.due[i].next_due_date <= r.due[j].next_due_date
              /\ r.phase \in {"create", "mark"} => r.pos \in 1..Len(r.due)
              /\ r.results.processed + r.results.failed = done - 1
              /\ Len(r.results.errors) = r.results.failed
              /\ errorIds(r.results) \subseteq completedRows(r, done)
              /\ \A i, j \in 1..Len(r.results.errors) :
                    i < j => positionIn(r, r.results.errors[i].recurring_transaction_id)
                             < positionIn(r, r.results.errors[j].recurring_transaction_id)
              /\ \A id \in completedRows(r, done) \ errorIds(r.results) :
                    /\ id \in createdBy(r)
                    /\ templates[id].last_created_date = r.dateStr
              /\ createdBy(r) \subseteq
                    completedRows(r, done)
                    \cup (IF r.phase = "mark" THEN {r.due[r.pos].id} ELSE {})
              /\ r.phase = "mark" => r.due[r.pos].id \in createdBy(r)

\* a run over three templates with three different due dates, listed in an
\* order that is not the order of their ids, has dealt with all of them: the
\* first and the third failed, and errors names them in that order
C23_Witness ==
    /\ running[1].kind = "batch"
    /\ running[1].phase = "done"
    /\ Len(running[1].due) = 3
    /\ running[1].due[1].next_due_date < running[1].due[2].next_due_date
    /\ running[1].due[2].next_due_date < running[1].due[3].next_due_date
    /\ running[1].due[1].id > running[1].due[3].id
    /\ running[1].results.processed = 1
    /\ Len(running[1].results.errors) = 2
    /\ running[1].results.errors[1].recurring_transaction_id = running[1].due[1].id
    /\ running[1].results.errors[2].recurring_transaction_id = running[1].due[3].id

\* the templates a step created an entry for
loggedIn(op) == {op.log[k].recurring_id : k \in 1..Len(op.log)}

\* C24: every template a batch run for date D processed successfully has,
\* after the run, a next_due_date strictly later than D, so that the filter
\* does not admit it for D; a batch run that directly follows a batch run for
\* the same date neither lists nor materializes a template the first one
\* processed successfully.
C24_AdvancedPastRunDate ==
    [][ LET op == lastOp'
        IN  op.op = "batch" =>
              /\ \A id \in firedIn(op) :
                    /\ templates'[id].next_due_date > op.date
                    /\ ~isDue(templates'[id], op.date)
              /\ (lastOp.op = "batch" /\ lastOp.date = op.date) =>
                    \A id \in firedIn(lastOp) :
                        /\ id \notin Range(op.due)
                        /\ id \notin loggedIn(op)
      ]_vars

\* a yearly template with a day of month was processed by a run on
\* 2024-02-29; the run that followed for the same date listed nothing
C24_Witness ==
    /\ lastOp.op = "batch"
    /\ lastOp.date = 424
    /\ lastOp.due = <<>>
    /\ Len(templates) = 1
    /\ templates[1].frequency = "yearly"
    /\ templates[1].day_of_month = 31
    /\ templates[1].last_created_date = lastOp.date
    /\ templates[1].next_due_date > lastOp.date
    /\ Len(cash) = 1

\* template id is active, its next_due_date is not later than its end_date,
\* and the day of its next_due_date is one the model tells apart
awaitingFire(id) ==
    /\ id \in 1..Len(templates)
    /\ templates[id].is_active
    /\ templates[id].end_date = Null \/ templates[id].next_due_date <= templates[id].end_date
    /\ templates[id].next_due_date <= LastDay

\* the job's run that has just ended listed template id and processed it
firedByJob(id) ==
    /\ lastOp.op = "batch"
    /\ id \in Range(lastOp.due) \ errorIds(lastOp.results)

\* C25: with the job run on every day and no storage failure, a template
\* that is active and whose next_due_date is not later than its end_date is
\* eventually listed and fired by a run of the job (unless a user operation
\* ends that condition first, or the ledger of the model is full), whatever
\* create, update and trigger operations came before.
C25_EventuallyFired ==
    \A id \in 1..MaxTemplates :
        awaitingFire(id) ~> (firedByJob(id) \/ ~awaitingFire(id) \/ ledgerSize >= MaxLedger)

\* C26: a weekly template created with day_of_week = w (0..6, Sunday = 0)
\* has, after its creation and after every fire, a next_due_date that falls
\* on weekday w.
C26_WeeklyKeepsWeekday ==
    \A i \in 1..Len(templates) :
        (/\ templates[i].frequency = "weekly"
         /\ calc.args.frequency = "weekly"
         /\ calc.args.dayOfWeek # Null
         /\ calc.result # Null)
        => getDay(templates[i].next_due_date) = calc.args.dayOfWeek

\* the entries of the log of a step that belong to template id
logEntriesOf(op, id) == {k \in 1..Len(op.log) : op.log[k].recurring_id = id}

\* C27: a batch run for date D creates at most one ledger entry per due
\* template, every entry it creates is dated D, whatever the template's
\* next_due_date was, and a template it processed has next_due_date
\* computed from D: the run adds no entry for an occurrence that was missed.
C27_NoBackfill ==
    [][ LET op == lastOp'
        IN  op.op = "batch" =>
              /\ ledgerExtended
              /\ loggedIn(op) \subseteq Range(op.due)
              /\ \A id \in Range(op.due) : Cardinality(logEntriesOf(op, id)) <= 1
              /\ (Len(checks') - Len(checks)) + (Len(cash') - Len(cash)) = Len(op.log)
              /\ \A k \in (Len(checks) + 1)..Len(checks') : checks'[k].date = op.date
              /\ \A k \in (Len(cash) + 1)..Len(cash') : cash'[k].date = op.date
              /\ \A id \in firedIn(op) :
                    /\ Cardinality(logEntriesOf(op, id)) = 1
                    /\ templates'[id].last_created_date = op.date
                    /\ templates'[id].next_due_date =
                          calculateNextDueDate(templates[id].frequency, op.date,
                                               templates[id].day_of_month,
                                               templates[id].day_of_week)
      ]_vars

\* a daily template that had never fired, due since 2023-01-02, was
\* processed by a run more than a year later: one entry, dated the run's
\* date, and the next due date is the day after the run
C27_Witness ==
    /\ lastOp.op = "batch"
    /\ lastOp.results.processed = 1
    /\ Len(templates) = 1
    /\ templates[1].frequency = "daily"
    /\ templates[1].start_date = 0
    /\ lastOp.date > 365
    /\ templates[1].last_created_date = lastOp.date
    /\ templates[1].next_due_date = lastOp.date + 1
    /\ Len(cash) = 1
    /\ Len(checks) = 0
    /\ cash[1].date = lastOp.date

\* the snapshot the call would return from the ledger as it stood when the
\* checks table had c rows and the cash table k rows
snapshotOfLedger(op, c, k) ==
    calculateBalanceForDate(accounts, SubSeq(checks, 1, c), SubSeq(cash, 1, k),
                            op.rows, op.userId, op.snapshot.date)

\* C28: the snapshot a call returns is the snapshot of one ledger state that
\* existed between the start of the call and its return.  The tables only
\* grow, so every such state consists of the first c check rows and the
\* first k cash rows, for some c and k between the sizes at the start and
\* those at the return.
C28_SnapshotOfOneState ==
    lastOp.op = "snapshot" =>
        \E c \in lastOp.checksAtStart..Len(checks), k \in lastOp.cashAtStart..Len(cash) :
            lastOp.snapshot = snapshotOfLedger(lastOp, c, k)

\* dates for which balances are compared: the day before, the day of and
\* the day after every date an entry can carry
BalanceDates == {419, 420, 421, 427, 428, 429, 434, 435, 436, 437, 455, 456, 457}

\* computeBalance(u, D) on the given tables
balanceOf(accts, chks, csh, userId, date) ==
    calculateBalanceForDate(accts, chks, csh,
                            CHOOSE rows \in accountRowOrders(accts, userId) : TRUE,
                            userId, date)

\* what a fire of template T adds to its owner's balance
signedAmount(T) ==
    IF \/ T.transaction_type = "check" /\ T.check_type = "incoming"
       \/ T.transaction_type = "cash" /\ T.cash_type = "credit"
    THEN T.amount
    ELSE 0 - T.amount

\* the balance a snapshot reports for account a
balanceOfAccount(snap, a) ==
    (CHOOSE e \in balanceByAccount(snap) : e[1] = a)[2]

\* C29: a step that is one successful fire of template T (amount a, owner u)
\* at effective date E changes u's overall_balance for every date D >= E by
\* +a (incoming check, cash credit) or -a (outgoing check, cash debit) and
\* leaves u's snapshot for every date D < E as it was; a check template
\* changes the balance of the referenced account only and not the cash
\* balance, a cash template changes the cash balance only.
C29_FireMovesBalanceByAmount ==
    [][\A id \in firedIn(lastOp') :
          (firedIn(lastOp') = {id} /\ Len(lastOp'.log) = 1) =>
          LET T == templates[id]
              E == lastOp'.date
              delta(D) == IF D >= E THEN signedAmount(T) ELSE 0
          IN  \A D \in BalanceDates :
                \A before \in {balanceOf(accounts, checks, cash, T.user_id, D)},
                   after \in {balanceOf(accounts', checks', cash', T.user_id, D)} :
                  \A ids \in {{e[1] : e \in balanceByAccount(before)}} :
                    /\ after.overall_balance = before.overall_balance + delta(D)
                    /\ D < E => after = before
                    /\ {e[1] : e \in balanceByAccount(after)} = ids
                    /\ IF T.transaction_type = "check"
                       THEN /\ after.cash_balance = before.cash_balance
                            /\ \A a \in ids :
                                  balanceOfAccount(after, a) =
                                      balanceOfAccount(before, a)
                                      + (IF a = T.bank_account_id THEN delta(D) ELSE 0)
                       ELSE /\ after.cash_balance = before.cash_balance + delta(D)
                            /\ balanceByAccount(after) = balanceByAccount(before)
      ]_vars

\* a check template of user 1 was fired a second time: the ledger holds two
\* entries on the referenced account, both counted at the later date and
\* neither before the earlier one
C29_Witness ==
    /\ firedIn(lastOp) = {1}
    /\ templates[1].transaction_type = "check"
    /\ Len(checks) = 2
    /\ LET a == templates[1].bank_account_id
       IN  /\ balanceOfAccount(balanceOf(accounts, checks, cash, 1, 457), a)
                 = accounts[a].opening_balance + 2 * signedAmount(templates[1])
           /\ balanceOfAccount(balanceOf(accounts, checks, cash, 1, 419), a)
                 = accounts[a].opening_balance

\* the user a logged new entry belongs to: the owner of the check's account,
\* the user of the cash row
entryOwner(entry) ==
    IF entry.table = "check"
    THEN accounts[checks'[entry.row].bank_account_id].user_id
    ELSE cash'[entry.row].user_id

\* the step ran the job and the job materialized a template of the user
jobFiredTemplateOf(userId) ==
    /\ lastOp'.op = "batch"
    /\ \E k \in 1..Len(lastOp'.log) : templates[lastOp'.log[k].recurring_id].user_id = userId

\* C30: whatever user 2 does to the accounts, checks, cash rows and
\* templates there are, its own and user 1's, and whichever of user 2's
\* templates the job or user 2's trigger fires, computeBalance(1, D) stays
\* the same for every date D; only a job run that materializes a template
\* of user 1 changes it.  Every entry a fire creates is a cash row of the
\* template's owner or a check on an account of the template's owner.
C30_OtherUsersNeverChangeBalance ==
    [][/\ jobFiredTemplateOf(1)
          \/ <<accounts', checks', cash'>> = <<accounts, checks, cash>>
          \/ \A D \in BalanceDates :
                balanceOf(accounts', checks', cash', 1, D)
                    = balanceOf(accounts, checks, cash, 1, D)
       /\ lastOp'.op \in {"trigger", "batch"} /\ "log" \in DOMAIN lastOp' =>
             \A k \in 1..Len(lastOp'.log) :
                 entryOwner(lastOp'.log[k]) = templates[lastOp'.log[k].recurring_id].user_id
      ]_vars

\* user 2 has a check of its own, its template has just been fired, its
\* attempts on user 1's check left the check as it was
C30_Witness ==
    /\ lastOp.op = "trigger"
    /\ lastOp.status = 200
    /\ lastOp.id = 2
    /\ Len(checks) >= 2
    /\ accounts[checks[2].bank_account_id].user_id = 2
    /\ checks[1] = [bank_account_id |-> 1, type |-> "incoming", amount |-> 30,
                    date |-> 428, payee_payer_name |-> "rent"]
    /\ balanceOf(accounts, checks, cash, 1, 428).overall_balance = 30

====
